---- MODULE Spec2Model ----
(***************************************************************************)
(* Mnemos web client: the streaming response consumer of the Vite client   *)
(* (parseSseBlock and App.send).  Text is modelled as sequences of         *)
(* one-character strings, the byte stream as a sequence of bytes in which  *)
(* the two bytes "C3" "A9" are the UTF-8 encoding of the character "U+E9". *)
(***************************************************************************)
EXTENDS Naturals, Sequences, FiniteSets, TLC

(***************************************************************************)
(* Strings                                                                 *)
(***************************************************************************)

\* The whitespace String.prototype.trim removes (those the streams can hold).
TrimSpace == {" ", "\n", "\t", "\r"}

RECURSIVE FirstNonSpace(_, _)
FirstNonSpace(s, i) ==
    IF i > Len(s) THEN i
    ELSE IF s[i] \in TrimSpace THEN FirstNonSpace(s, i + 1) ELSE i

RECURSIVE LastNonSpace(_, _)
LastNonSpace(s, j) ==
    IF j < 1 THEN j
    ELSE IF s[j] \in TrimSpace THEN LastNonSpace(s, j - 1) ELSE j

\* String.prototype.trim
Trim(s) == SubSeq(s, FirstNonSpace(s, 1), LastNonSpace(s, Len(s)))

\* String.prototype.startsWith
StartsWith(s, p) == Len(s) >= Len(p) /\ SubSeq(s, 1, Len(p)) = p

\* String.prototype.slice(n)
Slice(s, n) == SubSeq(s, n + 1, Len(s))

\* Whether the separator d stands at index i of s.
SepAt(s, d, i) == i + Len(d) - 1 <= Len(s) /\ SubSeq(s, i, i + Len(d) - 1) = d

\* String.prototype.split(d) for a non-empty separator: the pieces between
\* the occurrences of d, found left to right without overlap.  from is the
\* start of the piece being scanned; the next separator is the leftmost one
\* at or after it.
RECURSIVE SplitFrom(_, _, _)
SplitFrom(s, d, from) ==
    LET at == {i \in from..Len(s) : s[i] = d[1] /\ SepAt(s, d, i)}
    IN  IF at = {} THEN <<SubSeq(s, from, Len(s))>>
        ELSE LET i == CHOOSE x \in at : \A y \in at : x <= y
             IN  <<SubSeq(s, from, i - 1)>> \o SplitFrom(s, d, i + Len(d))

Split(s, d) == SplitFrom(s, d, 1)

\* Array.prototype.join(d)
RECURSIVE Join(_, _)
Join(parts, d) ==
    IF parts = <<>> THEN <<>>
    ELSE IF Len(parts) = 1 THEN parts[1]
    ELSE parts[1] \o d \o Join(Tail(parts), d)

\* Whether p occurs in s (String.prototype.includes).
Includes(s, p) == \E i \in 1..(Len(s) + 1) : Len(p) = 0 \/ SepAt(s, p, i)

IsPrefix(p, s) == StartsWith(s, p)

(***************************************************************************)
(* TextDecoder("utf-8"), streaming                                         *)
(***************************************************************************)

LeadByte == "C3"
ContByte == "A9"
Replacement == "U+FFFD"

\* One byte through the UTF-8 decoder: the text it completes, given whether
\* a lead byte waits for its continuation.  An unfinished or stray sequence
\* becomes U+FFFD; a byte that cannot continue the pending lead byte is then
\* decoded on its own.
DecodeByte(pending, b) ==
    IF pending
    THEN IF b = ContByte THEN <<"U+E9">>
         ELSE IF b = LeadByte THEN <<Replacement>>
         ELSE <<Replacement, b>>
    ELSE IF b = LeadByte THEN <<>>
         ELSE IF b = ContByte THEN <<Replacement>>
         ELSE <<b>>

\* The concatenation of parts[lo..hi].
RECURSIVE Flatten(_, _, _)
Flatten(parts, lo, hi) ==
    IF lo > hi THEN <<>>
    ELSE IF lo = hi THEN parts[lo]
    ELSE LET mid == (lo + hi) \div 2
         IN  Flatten(parts, lo, mid) \o Flatten(parts, mid + 1, hi)

\* decoder.decode(bytes, { stream }): [out, pending], the decoded text and
\* whether a lead byte is kept for the next call.  A lead byte waits exactly
\* after a lead byte was read; without stream it is flushed as U+FFFD.
Decode(pending, bytes, stream) ==
    LET n == Len(bytes)
        waits(i) == IF i = 0 THEN pending ELSE bytes[i] = LeadByte
        parts == [i \in 1..n |-> DecodeByte(waits(i - 1), bytes[i])]
        out == Flatten(parts, 1, n)
    IN  IF stream THEN [out |-> out, pending |-> waits(n)]
        ELSE [out |-> IF waits(n) THEN Append(out, Replacement) ELSE out,
              pending |-> FALSE]

(***************************************************************************)
(* JSON values, JSON.parse and JSON.stringify                              *)
(***************************************************************************)

\* A JavaScript value: a string, an object (its entries in insertion order, as
\* <<key, value>> pairs), one of the literals true, false, null, or undefined.
JStr(s) == [t |-> "str", s |-> s, kv |-> <<>>]
JObj(kv) == [t |-> "obj", s |-> <<>>, kv |-> kv]
JLit(s) == [t |-> "lit", s |-> s, kv |-> <<>>]
Undefined == [t |-> "undef", s |-> <<>>, kv |-> <<>>]

\* A response body r.json() cannot parse.
Unparseable == [t |-> "unparseable", s |-> <<>>, kv |-> <<>>]

LitTrue == <<"t", "r", "u", "e">>
LitFalse == <<"f", "a", "l", "s", "e">>
LitNull == <<"n", "u", "l", "l">>

JsonSpace == {" ", "\n", "\t", "\r"}

RECURSIVE SkipSpace(_, _)
SkipSpace(s, i) ==
    IF i <= Len(s) /\ s[i] \in JsonSpace THEN SkipSpace(s, i + 1) ELSE i

NoParse == [ok |-> FALSE, v |-> Undefined, i |-> 0]

\* The characters of a string literal from index i up to its closing quote.
\* A raw control character ends the parse with an error, as does a backslash
\* (no stream of the model carries an escape sequence).
RECURSIVE JsonString(_, _, _)
JsonString(s, i, acc) ==
    IF i > Len(s) THEN NoParse
    ELSE IF s[i] = "\"" THEN [ok |-> TRUE, v |-> JStr(acc), i |-> i + 1]
    ELSE IF s[i] \in {"\n", "\t", "\r", "\\"} THEN NoParse
    ELSE JsonString(s, i + 1, Append(acc, s[i]))

\* obj[key] = value: a key already present keeps its place and takes the value.
SetKey(kv, key, value) ==
    IF \E n \in 1..Len(kv) : kv[n][1] = key
    THEN [n \in 1..Len(kv) |-> IF kv[n][1] = key THEN <<key, value>> ELSE kv[n]]
    ELSE Append(kv, <<key, value>>)

RECURSIVE JsonValue(_, _)
RECURSIVE JsonMembers(_, _, _)

\* The members of an object from index i (after "{" or ","), kv those read.
JsonMembers(s, i, kv) ==
    LET k0 == SkipSpace(s, i)
    IN  IF k0 > Len(s) \/ s[k0] # "\"" THEN NoParse
        ELSE LET key == JsonString(s, k0 + 1, <<>>)
             IN  IF ~key.ok THEN NoParse
                 ELSE LET c == SkipSpace(s, key.i)
                      IN  IF c > Len(s) \/ s[c] # ":" THEN NoParse
                          ELSE LET val == JsonValue(s, c + 1)
                               IN  IF ~val.ok THEN NoParse
                                   ELSE LET e == SkipSpace(s, val.i)
                                            kv2 == SetKey(kv, key.v.s, val.v)
                                        IN  IF e > Len(s) THEN NoParse
                                            ELSE IF s[e] = "}"
                                                 THEN [ok |-> TRUE, v |-> JObj(kv2), i |-> e + 1]
                                            ELSE IF s[e] = ","
                                                 THEN JsonMembers(s, e + 1, kv2)
                                            ELSE NoParse

\* One JSON value starting at or after index i.
JsonValue(s, i) ==
    LET j == SkipSpace(s, i)
    IN  IF j > Len(s) THEN NoParse
        ELSE IF s[j] = "\"" THEN JsonString(s, j + 1, <<>>)
        ELSE IF s[j] = "{"
             THEN LET k == SkipSpace(s, j + 1)
                  IN  IF k <= Len(s) /\ s[k] = "}"
                      THEN [ok |-> TRUE, v |-> JObj(<<>>), i |-> k + 1]
                      ELSE JsonMembers(s, j + 1, <<>>)
        ELSE IF SepAt(s, LitTrue, j) THEN [ok |-> TRUE, v |-> JLit(LitTrue), i |-> j + 4]
        ELSE IF SepAt(s, LitFalse, j) THEN [ok |-> TRUE, v |-> JLit(LitFalse), i |-> j + 5]
        ELSE IF SepAt(s, LitNull, j) THEN [ok |-> TRUE, v |-> JLit(LitNull), i |-> j + 4]
        ELSE NoParse

\* The parse succeeds when nothing but whitespace follows the value.
JsonWhole(raw, r) ==
    IF r.ok /\ SkipSpace(raw, r.i) > Len(raw)
    THEN [ok |-> TRUE, v |-> r.v]
    ELSE [ok |-> FALSE, v |-> Undefined]

\* JSON.parse(raw): [ok, v], ok FALSE where JSON.parse throws a SyntaxError.
\* Numbers and arrays are left out: no stream of the model holds a digit or a
\* bracket, so every text they would make valid is absent.
JsonParse(raw) == JsonWhole(raw, JsonValue(raw, 1))

RECURSIVE JsonStringify(_)
RECURSIVE StringifyMembers(_, _)
StringifyMembers(kv, n) ==
    IF n > Len(kv) THEN <<>>
    ELSE (IF n > 1 THEN <<",">> ELSE <<>>)
         \o <<"\"">> \o kv[n][1] \o <<"\"", ":">> \o JsonStringify(kv[n][2])
         \o StringifyMembers(kv, n + 1)

\* JSON.stringify(v) of a value JSON.parse returned or of { text: raw }.
JsonStringify(v) ==
    IF v.t = "str" THEN <<"\"">> \o v.s \o <<"\"">>
    ELSE IF v.t = "obj" THEN <<"{">> \o StringifyMembers(v.kv, 1) \o <<"}">>
    ELSE v.s

\* v?.key: the property of an object, undefined for anything else.
Get(v, key) ==
    IF v.t = "obj" /\ \E n \in 1..Len(v.kv) : v.kv[n][1] = key
    THEN v.kv[CHOOSE n \in 1..Len(v.kv) : v.kv[n][1] = key][2]
    ELSE Undefined

\* JavaScript truthiness, as a || b reads it.
Truthy(v) == v.t = "obj" \/ (v.t = "str" /\ v.s # <<>>) \/ (v.t = "lit" /\ v.s = LitTrue)

\* a || b
OrElse(a, b) == IF Truthy(a) THEN a ELSE b

\* `${v}`
ToText(v) ==
    IF v.t = "obj" THEN <<"[", "o", "b", "j", "e", "c", "t", " ", "O", "b", "j", "e", "c", "t", "]">>
    ELSE IF v.t = "undef" THEN <<"u", "n", "d", "e", "f", "i", "n", "e", "d">>
    ELSE v.s

(***************************************************************************)
(* parseSseBlock                                                           *)
(***************************************************************************)

EventPrefix == <<"e", "v", "e", "n", "t", ":">>
DataPrefix == <<"d", "a", "t", "a", ":">>
EvMessage == <<"m", "e", "s", "s", "a", "g", "e">>
KeyText == <<"t", "e", "x", "t">>

\* What a call of parseSseBlock gives: null (isNull), or the event { event,
\* payload }; fallback tells that JSON.parse threw and the raw text was kept,
\* threw that an exception left parseSseBlock.
Null == [event |-> <<>>, payload |-> Undefined, isNull |-> TRUE, fallback |-> FALSE,
         threw |-> FALSE]

\* The event name after the for loop: that of the last "event:" line.
RECURSIVE EventOf(_, _, _)
EventOf(lines, n, event) ==
    IF n > Len(lines) THEN event
    ELSE EventOf(lines, n + 1,
                 IF StartsWith(lines[n], EventPrefix)
                 THEN Trim(Slice(lines[n], 6)) ELSE event)

\* A loop that removes the prefix of a data line and nothing else.
RECURSIVE DataOfUntrimmed(_, _)
DataOfUntrimmed(lines, n) ==
    IF n > Len(lines) THEN <<>>
    ELSE (IF StartsWith(lines[n], DataPrefix)
          THEN <<Slice(lines[n], 5)>> ELSE <<>>) \o DataOfUntrimmed(lines, n + 1)

\* The data array after the for loop: the "data:" lines, prefix removed, trimmed.
RECURSIVE DataOf(_, _)
DataOf(lines, n) ==
    IF n > Len(lines) THEN <<>>
    ELSE (IF StartsWith(lines[n], DataPrefix)
          THEN <<Trim(Slice(lines[n], 5))>> ELSE <<>>) \o DataOf(lines, n + 1)

\* A parser whose catch block keeps nothing of the raw text.
PayloadFromEmptied(raw, p) ==
    IF p.ok THEN [payload |-> p.v, fallback |-> FALSE, threw |-> FALSE]
    ELSE [payload |-> JObj(<<>>), fallback |-> TRUE, threw |-> FALSE]

PayloadOfEmptied(raw) ==
    IF raw = <<>> THEN [payload |-> JObj(<<>>), fallback |-> FALSE, threw |-> FALSE]
    ELSE PayloadFromEmptied(raw, JsonParse(raw))

\* A parser without the try block: the exception of JSON.parse leaves it.
PayloadFromUncaught(raw, p) ==
    IF p.ok THEN [payload |-> p.v, fallback |-> FALSE, threw |-> FALSE]
    ELSE [payload |-> Undefined, fallback |-> FALSE, threw |-> TRUE]

PayloadOfUncaught(raw) ==
    IF raw = <<>> THEN [payload |-> JObj(<<>>), fallback |-> FALSE, threw |-> FALSE]
    ELSE PayloadFromUncaught(raw, JsonParse(raw))

\* try { payload = JSON.parse(raw) } catch { payload = { text: raw } }, p being
\* what JSON.parse made of raw.
PayloadFrom(raw, p) ==
    IF p.ok THEN [payload |-> p.v, fallback |-> FALSE, threw |-> FALSE]
    ELSE [payload |-> JObj(<<<<KeyText, JStr(raw)>>>>), fallback |-> TRUE, threw |-> FALSE]

\* let payload = {}; if (raw) { ... }
PayloadOf(raw) ==
    IF raw = <<>> THEN [payload |-> JObj(<<>>), fallback |-> FALSE, threw |-> FALSE]
    ELSE PayloadFrom(raw, JsonParse(raw))

\* return { event, payload }
EventRecord(event, p) ==
    [event |-> event, payload |-> p.payload, isNull |-> FALSE,
     fallback |-> p.fallback, threw |-> p.threw]

\* The for loop over the lines and what follows it.
ParsedLines(lines) ==
    EventRecord(EventOf(lines, 1, EvMessage), PayloadOf(Join(DataOf(lines, 1), <<"\n">>)))

\* A parser without its first line: the empty block is parsed like any other.
parseSseBlockNoNull(block) == ParsedLines(Split(block, <<"\n">>))

\* parseSseBlock(block)
parseSseBlock(block) ==
    IF block = <<>> THEN Null ELSE ParsedLines(Split(block, <<"\n">>))

(***************************************************************************)
(* State                                                                   *)
(***************************************************************************)

VARIABLES
    text,       \* useState(""): the textarea's text
    loading,    \* useState(false)
    messages,   \* useState([]): records [id, role, content]
    semantic,   \* useState([]): the semantic-memory list
    view,       \* [text, loading] as the rendered closure of send captured them
    turns,      \* the invocations of send that passed its guard, oldest first
    now,        \* what Date.now() returns
    block,      \* the argument of a call of parseSseBlock on its own
    evt,        \* what that call returned, Unparsed before it
    mounted,    \* whether the App component is mounted
    legacy,     \* the conversation-list client (React, POST /chat): its state
    vanilla     \* the plain-DOM client (POST /chat): its state

vars == <<text, loading, messages, semantic, view, turns, now, block, evt, mounted,
          legacy, vanilla>>

(***************************************************************************)
(* Bounds and inputs                                                       *)
(***************************************************************************)

\* Frames per stream.
MaxFrames == 2
\* Turns per session (the sends that pass the guard).
MaxTurns == 2
\* The values Date.now() takes.
MaxClock == 2
\* Length of the free data text handed to parseSseBlock on its own.
MaxRaw == 3

\* The number of messages sent by a client of /chat.
MaxSends == 2

\* The id of a message built without one (the user messages): undefined.
NoId == 0

ErrorLabel == <<"E", "r", "r", "o", "r", ":", " ">>
RequestFailed == <<"R", "e", "q", "u", "e", "s", "t", " ", "f", "a", "i", "l", "e", "d">>
StreamError == <<"S", "t", "r", "e", "a", "m", " ", "e", "r", "r", "o", "r">>
ToolLabel == <<"t", "o", "o", "l">>
KeyMessage == <<"m", "e", "s", "s", "a", "g", "e">>
KeyTool == <<"t", "o", "o", "l">>
KeyToolCall == <<"t", "o", "o", "l", "_", "c", "a", "l", "l">>
KeyName == <<"n", "a", "m", "e">>
EvToken == <<"t", "o", "k", "e", "n">>
EvToolCall == <<"t", "o", "o", "l", "_", "c", "a", "l", "l">>
EvError == <<"e", "r", "r", "o", "r">>
Delimiter == <<"\n", "\n">>

(***************************************************************************)
(* send: the dispatch of one chunk's blocks                                *)
(***************************************************************************)

\* A tool name that is always the generic label.
ToolNameGeneric(payload) == JStr(ToolLabel)

\* An update that puts the new text in front of the content.
AppendContentInFront(prev, assistantId, added) ==
    [n \in 1..Len(prev) |->
        IF prev[n].id = assistantId
        THEN [prev[n] EXCEPT !.content = added \o prev[n].content]
        ELSE prev[n]]

\* prev.map((m) => (m.id === assistantId ? { ...m, content: f(m.content) } : m))
\* for f = content => content \o added.
AppendContent(prev, assistantId, added) ==
    [n \in 1..Len(prev) |->
        IF prev[n].id = assistantId
        THEN [prev[n] EXCEPT !.content = prev[n].content \o added]
        ELSE prev[n]]

\* The catch block's update: content: `Error: ${err.message}`.
CatchContent(prev, assistantId, message) ==
    [n \in 1..Len(prev) |->
        IF prev[n].id = assistantId
        THEN [prev[n] EXCEPT !.content = ErrorLabel \o message]
        ELSE prev[n]]

\* evt.payload?.tool_call?.name || evt.payload?.tool || "tool"
ToolName(payload) ==
    OrElse(OrElse(Get(Get(payload, KeyToolCall), KeyName), Get(payload, KeyTool)),
           JStr(ToolLabel))

\* `\n[tool:${toolName}] ${JSON.stringify(evt.payload)}`
ToolAnnotation(payload) ==
    <<"\n", "[", "t", "o", "o", "l", ":">> \o ToText(ToolName(payload))
        \o <<"]", " ">> \o JsonStringify(payload)

\* evt.payload?.text || ""
TokenText(payload) == ToText(OrElse(Get(payload, KeyText), JStr(<<>>)))

\* new Error(evt.payload?.message || "Stream error").message
ErrorMessage(payload) == ToText(OrElse(Get(payload, KeyMessage), JStr(StreamError)))

\* err.message of a SyntaxError of JSON.parse or r.json().
JsonFailure == <<"U", "n", "e", "x", "p", "e", "c", "t", "e", "d", " ", "e", "n", "d", " ", "o", "f", " ", "J", "S", "O", "N", " ", "i", "n", "p", "u", "t">>

\* A dispatch that throws on an event name it does not know.
DispatchStrict(logged, assistantId, e) ==
    IF e.threw THEN [logged EXCEPT !.thrown = TRUE, !.message = JsonFailure]
    ELSE IF e.isNull THEN logged
    ELSE IF e.event = EvToolCall
         THEN [logged EXCEPT !.messages =
                    AppendContent(logged.messages, assistantId, ToolAnnotation(e.payload))]
    ELSE IF e.event = EvToken
         THEN [logged EXCEPT !.messages =
                    AppendContent(logged.messages, assistantId, TokenText(e.payload))]
    ELSE [logged EXCEPT !.thrown = TRUE, !.message = ErrorMessage(e.payload)]

\* The dispatch of the event e of a block: logged is [messages, log, thrown,
\* message], the message list, the blocks handled so far (this one included),
\* and whether the loop threw (with which message).  An exception out of
\* parseSseBlock would leave the loop like the throw of an error event.
Dispatch(logged, assistantId, e) ==
    IF e.threw THEN [logged EXCEPT !.thrown = TRUE, !.message = JsonFailure]
    ELSE IF e.isNull THEN logged
    ELSE IF e.event = EvToolCall
         THEN [logged EXCEPT !.messages =
                    AppendContent(logged.messages, assistantId, ToolAnnotation(e.payload))]
    ELSE IF e.event = EvToken
         THEN [logged EXCEPT !.messages =
                    AppendContent(logged.messages, assistantId, TokenText(e.payload))]
    ELSE IF e.event = EvError
         THEN [logged EXCEPT !.thrown = TRUE, !.message = ErrorMessage(e.payload)]
    ELSE logged

\* One iteration of the for loop over blocks.
DispatchBlock(st, assistantId, b) ==
    Dispatch([st EXCEPT !.log = Append(st.log, b)], assistantId, parseSseBlock(b))

\* A loop that goes on to the next block after an error event.
RECURSIVE DispatchBlocksOn(_, _, _, _)
DispatchBlocksOn(st, assistantId, blocks, n) ==
    IF n > Len(blocks) THEN st
    ELSE DispatchBlocksOn(DispatchBlock(st, assistantId, blocks[n]), assistantId, blocks, n + 1)

\* for (const block of blocks) { ... }: left to right, ended by the throw.
RECURSIVE DispatchBlocks(_, _, _, _)
DispatchBlocks(st, assistantId, blocks, n) ==
    IF n > Len(blocks) \/ st.thrown THEN st
    ELSE DispatchBlocks(DispatchBlock(st, assistantId, blocks[n]), assistantId, blocks, n + 1)

\* A loop that handles the piece after the last delimiter as well.
BlocksAll(pieces) == pieces

\* A loop that forgets the piece after the last delimiter: buffer = "".
PoppedDropped(pieces) == <<>>

\* blocks.pop() || "" leaves the last piece in the buffer.
Popped(pieces) == pieces[Len(pieces)]
Blocks(pieces) == SubSeq(pieces, 1, Len(pieces) - 1)

\* What one pass of the while loop leaves: [pending, buffer, messages, log,
\* thrown, message].
AfterDispatch(pending, buffer, st) ==
    [pending |-> pending, buffer |-> buffer, messages |-> st.messages,
     log |-> st.log, thrown |-> st.thrown, message |-> st.message]

\* const blocks = buffer.split("\n\n"); buffer = blocks.pop() || ""; for (...)
AfterSplit(t, msgs, pending, pieces) ==
    AfterDispatch(pending, Popped(pieces),
                  DispatchBlocks([messages |-> msgs, log |-> t.log, thrown |-> FALSE,
                                  message |-> <<>>],
                                 t.assistantId, Blocks(pieces), 1))

\* buffer += decoder.decode(...)
AfterDecode(t, msgs, dec) ==
    AfterSplit(t, msgs, dec.pending, Split(t.buffer \o dec.out, Delimiter))

\* A pass that takes a chunk without bytes for the end of the stream and has
\* the decoder flush.
LoopBodyFlushing(t, msgs, bytes, done) ==
    AfterDecode(t, msgs, Decode(t.pending, bytes, bytes # <<>> /\ ~done))

\* One pass of the while loop after reader.read() resolved with value bytes
\* and done: decode, split, dispatch.  t is the turn's record.
LoopBody(t, msgs, bytes, done) ==
    AfterDecode(t, msgs, Decode(t.pending, bytes, ~done))

(***************************************************************************)
(* The server's streams: frames of the wire contract, each followed by the *)
(* blank-line delimiter.  Each frame carries                               *)
(* its bytes (wire), their text (block) and what the wire contract says it *)
(* means: its kind, the text it adds to the assistant message (adds), the  *)
(* message of an error event, and whether it is malformed or carries data  *)
(* that is not JSON.                                                       *)
(***************************************************************************)

\* event: token / data: {"text":"He"}
TokenHe ==
    [wire |-> <<"e", "v", "e", "n", "t", ":", " ", "t", "o", "k", "e", "n", "\n", "d", "a", "t", "a", ":", " ", "{", "\"", "t", "e", "x", "t", "\"", ":", "\"", "H", "e", "\"", "}">>,
     block |-> <<"e", "v", "e", "n", "t", ":", " ", "t", "o", "k", "e", "n", "\n", "d", "a", "t", "a", ":", " ", "{", "\"", "t", "e", "x", "t", "\"", ":", "\"", "H", "e", "\"", "}">>,
     kind |-> "token", adds |-> <<"H", "e">>, malformed |-> FALSE, message |-> <<>>]

\* a token whose data is not JSON and ends in the two-byte character U+E9
TokenRaw ==
    [wire |-> <<"e", "v", "e", "n", "t", ":", "t", "o", "k", "e", "n", "\n", "d", "a", "t", "a", ":", "n", "C3", "A9">>,
     block |-> <<"e", "v", "e", "n", "t", ":", "t", "o", "k", "e", "n", "\n", "d", "a", "t", "a", ":", "n", "U+E9">>,
     kind |-> "token", adds |-> <<"n", "U+E9">>, malformed |-> TRUE, message |-> <<>>]

\* event: error / data: {"message":"boom"}
ErrorBoom ==
    [wire |-> <<"e", "v", "e", "n", "t", ":", "e", "r", "r", "o", "r", "\n", "d", "a", "t", "a", ":", "{", "\"", "m", "e", "s", "s", "a", "g", "e", "\"", ":", "\"", "b", "o", "o", "m", "\"", "}">>,
     block |-> <<"e", "v", "e", "n", "t", ":", "e", "r", "r", "o", "r", "\n", "d", "a", "t", "a", ":", "{", "\"", "m", "e", "s", "s", "a", "g", "e", "\"", ":", "\"", "b", "o", "o", "m", "\"", "}">>,
     kind |-> "error", adds |-> <<>>, malformed |-> FALSE, message |-> <<"b", "o", "o", "m">>]

\* event: tool_call / data: {"tool":"search"}
ToolSearch ==
    [wire |-> <<"e", "v", "e", "n", "t", ":", "t", "o", "o", "l", "_", "c", "a", "l", "l", "\n", "d", "a", "t", "a", ":", "{", "\"", "t", "o", "o", "l", "\"", ":", "\"", "s", "e", "a", "r", "c", "h", "\"", "}">>,
     block |-> <<"e", "v", "e", "n", "t", ":", "t", "o", "o", "l", "_", "c", "a", "l", "l", "\n", "d", "a", "t", "a", ":", "{", "\"", "t", "o", "o", "l", "\"", ":", "\"", "s", "e", "a", "r", "c", "h", "\"", "}">>,
     kind |-> "tool_call", adds |-> <<"\n", "[", "t", "o", "o", "l", ":", "s", "e", "a", "r", "c", "h", "]", " ", "{", "\"", "t", "o", "o", "l", "\"", ":", "\"", "s", "e", "a", "r", "c", "h", "\"", "}">>, malformed |-> FALSE, message |-> <<>>]

\* an error event whose data is not JSON
ErrorRaw ==
    [wire |-> <<"e", "v", "e", "n", "t", ":", "e", "r", "r", "o", "r", "\n", "d", "a", "t", "a", ":", "x">>,
     block |-> <<"e", "v", "e", "n", "t", ":", "e", "r", "r", "o", "r", "\n", "d", "a", "t", "a", ":", "x">>,
     kind |-> "error", adds |-> <<>>, malformed |-> TRUE, message |-> StreamError]

\* an event name the dispatcher does not know
Ping ==
    [wire |-> <<"e", "v", "e", "n", "t", ":", "p", "i", "n", "g">>,
     block |-> <<"e", "v", "e", "n", "t", ":", "p", "i", "n", "g">>,
     kind |-> "other", adds |-> <<>>, malformed |-> FALSE, message |-> <<>>]

\* a frame whose only line is neither an event nor a data line
Garbage ==
    [wire |-> <<":", "h", "i">>,
     block |-> <<":", "h", "i">>,
     kind |-> "other", adds |-> <<>>, malformed |-> TRUE, message |-> <<>>]

\* a tool_call that names its tool at tool_call.name (and at tool)
ToolNamed ==
    [wire |-> <<"e", "v", "e", "n", "t", ":", "t", "o", "o", "l", "_", "c", "a", "l", "l", "\n", "d", "a", "t", "a", ":", "{", "\"", "t", "o", "o", "l", "_", "c", "a", "l", "l", "\"", ":", "{", "\"", "n", "a", "m", "e", "\"", ":", "\"", "s", "\"", "}", ",", "\"", "t", "o", "o", "l", "\"", ":", "\"", "t", "\"", "}">>,
     block |-> <<"e", "v", "e", "n", "t", ":", "t", "o", "o", "l", "_", "c", "a", "l", "l", "\n", "d", "a", "t", "a", ":", "{", "\"", "t", "o", "o", "l", "_", "c", "a", "l", "l", "\"", ":", "{", "\"", "n", "a", "m", "e", "\"", ":", "\"", "s", "\"", "}", ",", "\"", "t", "o", "o", "l", "\"", ":", "\"", "t", "\"", "}">>,
     kind |-> "tool_call", adds |-> <<"\n", "[", "t", "o", "o", "l", ":", "s", "]", " ", "{", "\"", "t", "o", "o", "l", "_", "c", "a", "l", "l", "\"", ":", "{", "\"", "n", "a", "m", "e", "\"", ":", "\"", "s", "\"", "}", ",", "\"", "t", "o", "o", "l", "\"", ":", "\"", "t", "\"", "}">>, malformed |-> FALSE, message |-> <<>>]

\* a tool_call that does not name its tool
ToolBare ==
    [wire |-> <<"e", "v", "e", "n", "t", ":", "t", "o", "o", "l", "_", "c", "a", "l", "l", "\n", "d", "a", "t", "a", ":", "{", "}">>,
     block |-> <<"e", "v", "e", "n", "t", ":", "t", "o", "o", "l", "_", "c", "a", "l", "l", "\n", "d", "a", "t", "a", ":", "{", "}">>,
     kind |-> "tool_call", adds |-> <<"\n", "[", "t", "o", "o", "l", ":", "t", "o", "o", "l", "]", " ", "{", "}">>, malformed |-> FALSE, message |-> <<>>]

\* a frame without event line (the default event, message) whose data has a text
MessageText ==
    [wire |-> <<"d", "a", "t", "a", ":", "{", "\"", "t", "e", "x", "t", "\"", ":", "\"", "x", "\"", "}">>,
     block |-> <<"d", "a", "t", "a", ":", "{", "\"", "t", "e", "x", "t", "\"", ":", "\"", "x", "\"", "}">>,
     kind |-> "other", adds |-> <<>>, malformed |-> FALSE, message |-> <<>>]

\* an error event without data
ErrorBare ==
    [wire |-> <<"e", "v", "e", "n", "t", ":", "e", "r", "r", "o", "r">>,
     block |-> <<"e", "v", "e", "n", "t", ":", "e", "r", "r", "o", "r">>,
     kind |-> "error", adds |-> <<>>, malformed |-> FALSE, message |-> StreamError]

\* the empty frame
Empty ==
    [wire |-> <<>>,
     block |-> <<>>,
     kind |-> "empty", adds |-> <<>>, malformed |-> FALSE, message |-> <<>>]

Frames ==
    <<TokenHe, TokenRaw, ErrorBoom, ToolSearch, Garbage, Empty, ErrorRaw, Ping,
      ToolNamed, ToolBare, MessageText, ErrorBare>>

RECURSIVE SeqsUpTo(_, _)
SeqsUpTo(S, n) ==
    IF n = 0 THEN {<<>>}
    ELSE LET shorter == SeqsUpTo(S, n - 1)
         IN  shorter \cup {Append(q, x) : q \in shorter, x \in S}

\* A stream as the server writes it: the frames it sends (indexes of Frames),
\* each followed by the delimiter.  The server may close the stream after any
\* number of its bytes, so a stream can end in a torn frame or character.
\* Every sequence of up to MaxFrames frames of StreamFrames is a stream, and so
\* are the streams of EdgeStreams: the empty frame, the error event without
\* JSON, the unknown event and the other tool_call frames, alone, before and
\* after another frame.
StreamFrames ==
    {n \in DOMAIN Frames : Frames[n] \in {TokenHe, TokenRaw, ErrorBoom, ToolSearch, Garbage}}
EdgeStreams ==
    {<<6>>, <<6, 1>>, <<1, 6>>, <<7>>, <<7, 1>>, <<2, 7>>, <<5, 7>>,
     <<8>>, <<8, 1>>, <<1, 8>>, <<9>>, <<1, 9>>, <<10>>, <<10, 2>>, <<11, 1>>}
Streams == SeqsUpTo(StreamFrames, MaxFrames) \cup EdgeStreams

\* The streams of a session of several turns: one token, one error event.
SessionStreams == {<<2>>, <<12>>}

\* The bytes of a stream.
RECURSIVE Wire(_)
Wire(fs) ==
    IF fs = <<>> THEN <<>>
    ELSE Frames[Head(fs)].wire \o Delimiter \o Wire(Tail(fs))

\* What the user types.
Inputs == {<<>>, <<" ">>, <<" ", "h", "i", "\n">>}

\* The body of a non-success response as r.json() returns it.
KeyDetail == <<"d", "e", "t", "a", "i", "l">>
KeyError == <<"e", "r", "r", "o", "r">>
ErrorBodies ==
    {JObj(<<<<KeyDetail, JStr(<<"b", "a", "d">>)>>>>),
     JObj(<<<<KeyError, JStr(<<"n", "o">>)>>>>),
     JObj(<<<<KeyError, JStr(<<"n", "o">>)>>, <<KeyDetail, JStr(<<"b", "a", "d">>)>>>>),
     JObj(<<<<KeyDetail, JStr(<<>>)>>>>),
     JObj(<<>>),
     JLit(LitNull)}

\* r.status of the non-success responses, and of a success.
StatusCodes == {<<"5", "0", "0">>, <<"4", "2", "2">>}
OkCode == <<"2", "0", "0">>

\* The body of the non-success responses of a session of several turns.
SessionBodies == {JObj(<<<<KeyDetail, JStr(<<"b", "a", "d">>)>>>>)}

\* err.message of the rejections send can meet.
FetchFailure == <<"F", "a", "i", "l", "e", "d", " ", "t", "o", " ", "f", "e", "t", "c", "h">>
ReadFailure == <<"n", "e", "t", "w", "o", "r", "k", " ", "e", "r", "r", "o", "r">>
NullFailure == <<"C", "a", "n", "n", "o", "t", " ", "r", "e", "a", "d", " ", "p", "r", "o", "p", "e", "r", "t", "i", "e", "s", " ", "o", "f", " ", "n", "u", "l", "l">>

\* The lists /memories/semantic returns.
SemanticLists == {<<"m1">>}

(***************************************************************************)
(* send                                                                    *)
(***************************************************************************)

\* The record of one invocation of send past its guard: its position (pc),
\* its locals (assistantId, the decoder's pending lead byte, buffer), the number of
\* bytes the reader has delivered (sent), the promise it returned, and what happened:
\* stream (what the server sent), status (the response's r.ok), reader (whether
\* getReader() was called), didRead (whether a read resolved), log (the blocks
\* the for loop handled), refreshed (whether loadSemantic ran to its end),
\* outcome and cause.
NewTurn(id) ==
    [pc |-> "fetch", assistantId |-> id, sent |-> 0, pending |-> FALSE,
     buffer |-> <<>>, promise |-> "pending",
     stream |-> <<>>, status |-> "none", code |-> <<>>, body |-> Undefined,
     reader |-> FALSE, didRead |-> FALSE, log |-> <<>>, refreshed |-> FALSE,
     loads |-> 0, outcome |-> "active", cause |-> "none"]

\* A guard that does not look at loading.
GuardOfTextOnly(v) == Trim(v.text) # <<>>

\* if (!text.trim() || loading) return;
Guard(v) == ~(Trim(v.text) = <<>> \/ v.loading)

\* The function returned: its locals are gone, its promise is settled.
Returned(t, outcome, cause, promise) ==
    [t EXCEPT !.pc = "done", !.pending = FALSE, !.buffer = <<>>,
              !.outcome = outcome, !.cause = cause, !.promise = promise]

\* A send without the finally block: loading stays as it is after a failure.
CatchKeepsLoading(i, message, cause) ==
    /\ messages' = CatchContent(messages, turns[i].assistantId, message)
    /\ loading' = loading
    /\ turns' = [turns EXCEPT ![i] = Returned(turns[i], "failed", cause, "resolved")]

\* A send without the catch block: finally runs and the exception leaves send.
CatchNothing(i, message, cause) ==
    /\ messages' = messages
    /\ loading' = FALSE
    /\ turns' = [turns EXCEPT ![i] = Returned(turns[i], "failed", cause, "rejected")]

\* catch (err) { setMessages(...) } finally { setLoading(false) }, entered
\* from inside the try block with err.message = message.
Catch(i, message, cause) ==
    /\ messages' = CatchContent(messages, turns[i].assistantId, message)
    /\ loading' = FALSE
    /\ turns' = [turns EXCEPT ![i] = Returned(turns[i], "failed", cause, "resolved")]

\* What is kept of an earlier turn once a new one starts: its history is
\* recorded for the latest turn only.
Forget(t) ==
    [t EXCEPT !.stream = <<>>, !.sent = 0, !.log = <<>>, !.status = "none",
              !.code = <<>>, !.body = Undefined]

\* The user edits the textarea (onChange: setText); React renders the change.
TypeText(t) ==
    /\ mounted
    /\ text' = t
    /\ view' = [text |-> t, loading |-> loading]
    /\ UNCHANGED <<loading, messages, semantic, turns, now, block, evt, mounted, legacy, vanilla>>

\* send() returns at its guard.
SendRefused ==
    /\ mounted
    /\ ~Guard(view)
    /\ UNCHANGED vars

\* send() up to its first await: the guard, setText, setLoading, the message
\* pair, and fetch issued.  The updates are made in a click handler, so React
\* renders them before the next event.  t is what Date.now() returns.
SendStart(t) ==
    /\ mounted
    /\ Guard(view)
    /\ Len(turns) < MaxTurns
    /\ t >= now
    /\ now' = t
    /\ text' = <<>>
    /\ loading' = TRUE
    /\ messages' = messages \o
            <<[id |-> NoId, role |-> "user", content |-> Trim(view.text)],
              [id |-> t, role |-> "assistant", content |-> <<>>]>>
    /\ turns' = Append([j \in DOMAIN turns |-> Forget(turns[j])], NewTurn(t))
    /\ view' = [text |-> <<>>, loading |-> TRUE]
    /\ UNCHANGED <<semantic, block, evt, mounted, legacy, vanilla>>

\* React renders the updates made after an await.
Render ==
    /\ mounted
    /\ view # [text |-> text, loading |-> loading]
    /\ view' = [text |-> text, loading |-> loading]
    /\ UNCHANGED <<text, loading, messages, semantic, turns, now, block, evt, mounted, legacy, vanilla>>

\* The App component is unmounted (the owning view is discarded): React runs
\* the cleanups its effects returned.  The one effect of App (the scroll into
\* view) returns none, and send holds its reader in a local: nothing else
\* changes, and the steps of a send under way go on.  What they set on the
\* unmounted component is no longer shown; the model keeps recording it.
Unmount ==
    /\ mounted
    /\ mounted' = FALSE
    /\ UNCHANGED <<text, loading, messages, semantic, view, turns, now, block, evt, legacy, vanilla>>

\* fetch resolves with r.ok and a body: const reader = r.body.getReader().
FetchOk(i, s) ==
    /\ turns[i].pc = "fetch"
    /\ turns' = [turns EXCEPT ![i] =
            [@ EXCEPT !.pc = "read", !.status = "ok", !.stream = s, !.reader = TRUE]]
    /\ UNCHANGED <<text, loading, messages, semantic, view, now, block, evt, mounted, legacy, vanilla>>

\* fetch resolves with !r.ok || !r.body: send awaits r.json().  status is
\* "error" for a non-success status and "nobody" for a success without a
\* body; code is r.status as text and body is what r.json() will make of the
\* response.
FetchNotOk(i, status, code, body) ==
    /\ turns[i].pc = "fetch"
    /\ turns' = [turns EXCEPT ![i] =
            [@ EXCEPT !.pc = "errjson", !.status = status, !.code = code,
                      !.body = body]]
    /\ UNCHANGED <<text, loading, messages, semantic, view, now, block, evt, mounted, legacy, vanilla>>

\* fetch rejects.
FetchReject(i) ==
    /\ turns[i].pc = "fetch"
    /\ Catch(i, FetchFailure, "fetch")
    /\ UNCHANGED <<text, semantic, view, now, block, evt, mounted, legacy, vanilla>>

\* An error that does not look at the body.
RequestErrorGeneric(data) == RequestFailed

\* data.detail || data.error || "Request failed", a TypeError for data null.
RequestError(data) ==
    IF data.t = "lit" THEN NullFailure
    ELSE ToText(OrElse(OrElse(Get(data, KeyDetail), Get(data, KeyError)),
                       JStr(RequestFailed)))

\* r.json() resolves with data: throw new Error(...).
ErrorBody(i) ==
    /\ turns[i].pc = "errjson"
    /\ turns[i].body # Unparseable
    /\ Catch(i, RequestError(turns[i].body), "status")
    /\ UNCHANGED <<text, semantic, view, now, block, evt, mounted, legacy, vanilla>>

\* r.json() rejects: the body is not JSON (or there is none).
ErrorBodyReject(i) ==
    /\ turns[i].pc = "errjson"
    /\ turns[i].body = Unparseable
    /\ Catch(i, JsonFailure, "body")
    /\ UNCHANGED <<text, semantic, view, now, block, evt, mounted, legacy, vanilla>>

\* The bytes of its stream the reader has not delivered yet.
Unsent(t) == SubSeq(Wire(t.stream), t.sent + 1, Len(Wire(t.stream)))

\* reader.read() resolves with a chunk of k bytes (k = 0: an empty chunk): one
\* pass of the while loop.  An error event throws out of the loop into the
\* catch block.
ReadChunk(i, k) ==
    /\ turns[i].pc = "read"
    /\ k <= Len(Unsent(turns[i]))
    /\ \E r \in {LoopBody(turns[i], messages, SubSeq(Unsent(turns[i]), 1, k), FALSE)} :
       LET t == turns[i]
           read == [t EXCEPT !.sent = t.sent + k,
                             !.pending = r.pending, !.buffer = r.buffer,
                             !.log = r.log, !.didRead = TRUE]
       IN  IF r.thrown
           THEN /\ messages' = CatchContent(r.messages, t.assistantId, r.message)
                /\ loading' = FALSE
                /\ turns' = [turns EXCEPT ![i] = Returned(read, "failed", "event", "resolved")]
           ELSE /\ messages' = r.messages
                /\ loading' = loading
                /\ turns' = [turns EXCEPT ![i] = read]
    /\ UNCHANGED <<text, semantic, view, now, block, evt, mounted, legacy, vanilla>>

\* A last pass that handles the text left in the buffer as one more block.
ReadDoneFlushing(i) ==
    /\ turns[i].pc = "read"
    /\ \E r \in {LoopBody(turns[i], messages, <<>>, TRUE)} :
       \E f \in {DispatchBlock([messages |-> r.messages, log |-> r.log,
                                thrown |-> r.thrown, message |-> r.message],
                               turns[i].assistantId, r.buffer)} :
       LET t == turns[i]
           read == [t EXCEPT !.pending = r.pending, !.buffer = <<>>,
                             !.log = f.log, !.didRead = TRUE]
       IN  IF f.thrown
           THEN /\ messages' = CatchContent(f.messages, t.assistantId, f.message)
                /\ loading' = FALSE
                /\ turns' = [turns EXCEPT ![i] = Returned(read, "failed", "event", "resolved")]
           ELSE /\ messages' = f.messages
                /\ loading' = loading
                /\ turns' = [turns EXCEPT ![i] =
                        [read EXCEPT !.pc = "sem_fetch", !.loads = @ + 1]]
    /\ UNCHANGED <<text, semantic, view, now, block, evt, mounted, legacy, vanilla>>

\* reader.read() resolves with done, the server having closed the stream after
\* the bytes delivered so far: the last pass of the while loop, then
\* loadSemantic() is called and awaits fetch.
ReadDone(i) ==
    /\ turns[i].pc = "read"
    /\ \E r \in {LoopBody(turns[i], messages, <<>>, TRUE)} :
       LET t == turns[i]
           read == [t EXCEPT !.pending = r.pending, !.buffer = r.buffer,
                             !.log = r.log, !.didRead = TRUE]
       IN  IF r.thrown
           THEN /\ messages' = CatchContent(r.messages, t.assistantId, r.message)
                /\ loading' = FALSE
                /\ turns' = [turns EXCEPT ![i] = Returned(read, "failed", "event", "resolved")]
           ELSE /\ messages' = r.messages
                /\ loading' = loading
                /\ turns' = [turns EXCEPT ![i] =
                        [read EXCEPT !.pc = "sem_fetch", !.loads = @ + 1]]
    /\ UNCHANGED <<text, semantic, view, now, block, evt, mounted, legacy, vanilla>>

\* A transport failure after which the list is refreshed all the same.
ReadRejectRefreshes(i) ==
    /\ turns[i].pc = "read"
    /\ turns' = [turns EXCEPT ![i] = [@ EXCEPT !.pc = "sem_fetch", !.loads = @ + 1]]
    /\ UNCHANGED <<text, loading, messages, semantic, view, now, block, evt, mounted, legacy, vanilla>>

\* reader.read() rejects: the transport failed.
ReadReject(i) ==
    /\ turns[i].pc = "read"
    /\ Catch(i, ReadFailure, "transport")
    /\ UNCHANGED <<text, semantic, view, now, block, evt, mounted, legacy, vanilla>>

\* loadSemantic: fetch(SEMANTIC_MEMORIES_API) resolves; r.json() is awaited.
SemanticFetched(i) ==
    /\ turns[i].pc = "sem_fetch"
    /\ turns' = [turns EXCEPT ![i] = [@ EXCEPT !.pc = "sem_json"]]
    /\ UNCHANGED <<text, loading, messages, semantic, view, now, block, evt, mounted, legacy, vanilla>>

\* loadSemantic: fetch rejects, and await loadSemantic() throws in the try block.
SemanticFetchReject(i) ==
    /\ turns[i].pc = "sem_fetch"
    /\ Catch(i, FetchFailure, "refresh")
    /\ UNCHANGED <<text, semantic, view, now, block, evt, mounted, legacy, vanilla>>

\* loadSemantic: r.json() resolves, setSemantic(data.memories || []); send
\* leaves the try block through finally.
SemanticLoaded(i, list) ==
    /\ turns[i].pc = "sem_json"
    /\ semantic' = list
    /\ loading' = FALSE
    /\ turns' = [turns EXCEPT ![i] =
            Returned([turns[i] EXCEPT !.refreshed = TRUE], "complete", "none", "resolved")]
    /\ UNCHANGED <<text, messages, view, now, block, evt, mounted, legacy, vanilla>>

\* loadSemantic: r.json() rejects.
SemanticJsonReject(i) ==
    /\ turns[i].pc = "sem_json"
    /\ Catch(i, JsonFailure, "refresh")
    /\ UNCHANGED <<text, semantic, view, now, block, evt, mounted, legacy, vanilla>>

(***************************************************************************)
(* The conversation-list client: App of the React page that posts to /chat *)
(***************************************************************************)

\* The chats the server has when the page opens, the chat it creates for a
\* message sent without chat_id, and currentChatId = null.
NoChat == 0
OldChats == {1, 2}
NewChat == 3

\* The texts of the server: a chat's stored message, the reply of /chat.
StoredText == <<"o", "l", "d">>
ReplyText == <<"o", "k">>
FailedToGetResponse == <<"F", "a", "i", "l", "e", "d", " ", "t", "o", " ", "g", "e", "t", " ", "r", "e", "s", "p", "o", "n", "s", "e">>

\* The bodies of the non-success responses of /chat, and the rejections met.
ChatBodies == {JObj(<<<<KeyError, JStr(<<"n", "o">>)>>>>), JObj(<<>>)}
ChatFailures == {FetchFailure}

\* What the user types into the input of the clients of /chat.
LegacyInputs == {<<>>, <<" ">>, <<" ", "h", "i">>}

\* A message of the list; chat is the chat the server files it under.
Message(role, content, chat) == [role |-> role, content |-> content, chat |-> chat]

\* No sendMessage is running.
Idle == [pc |-> "idle", chat |-> NoChat, target |-> NoChat, text |-> <<>>,
         appended |-> <<>>]

\* The state of the page that does not run this client.
LegacyClosed ==
    [loaded |-> FALSE, chats |-> {}, currentChatId |-> NoChat, messages |-> <<>>,
     inputMessage |-> <<>>, isLoading |-> FALSE, boot |-> "none", loads |-> {},
     send |-> Idle, store |-> [c \in OldChats \cup {NewChat} |-> <<>>],
     posted |-> <<>>]

\* useState initial values, and the effect on mount: loadChats() awaits its
\* fetch.  store is the server's: the messages of each chat; posted records
\* the message of every POST /chat issued, and appended what the running (or
\* the last) sendMessage has appended to the list.
LegacyOpened ==
    [LegacyClosed EXCEPT
        !.loaded = TRUE, !.boot = "pending",
        !.store = [c \in OldChats \cup {NewChat} |->
                      IF c \in OldChats THEN <<Message("user", StoredText, c)>> ELSE <<>>]]

\* GET /chats: the chats that exist, in the server's order.
ServerChats(l) == {c \in DOMAIN l.store : l.store[c] # <<>>}

\* setCurrentChatId(c) and, when the id changes, the effect of
\* [currentChatId]: loadChatMessages(c) is called and awaits its fetch
\* (setMessages([]) for null).
SetCurrentChatId(l, c) ==
    IF c = l.currentChatId THEN l
    ELSE IF c = NoChat THEN [l EXCEPT !.currentChatId = c, !.messages = <<>>]
    ELSE [l EXCEPT !.currentChatId = c, !.loads = @ \cup {c}]

\* loadChats of the mount resolves: setChats(data) and, the closure's
\* currentChatId being null, setCurrentChatId(data[0].id).
LoadChatsResolved(first) ==
    /\ legacy.boot = "pending"
    /\ first \in ServerChats(legacy)
    /\ legacy' = SetCurrentChatId([legacy EXCEPT !.boot = "done",
                                                 !.chats = ServerChats(legacy)], first)
    /\ UNCHANGED <<text, loading, messages, semantic, view, turns, now, block, evt,
                   mounted, vanilla>>

\* loadChats of the mount rejects: console.error.
LoadChatsRejected ==
    /\ legacy.boot = "pending"
    /\ legacy' = [legacy EXCEPT !.boot = "done"]
    /\ UNCHANGED <<text, loading, messages, semantic, view, turns, now, block, evt,
                   mounted, vanilla>>

\* onClick of a chat of the sidebar: setCurrentChatId(chat.id).
SelectChat(c) ==
    /\ legacy.loaded
    /\ c \in legacy.chats
    /\ c # legacy.currentChatId
    /\ legacy' = SetCurrentChatId(legacy, c)
    /\ UNCHANGED <<text, loading, messages, semantic, view, turns, now, block, evt,
                   mounted, vanilla>>

\* loadChatMessages(c) resolves: setMessages(data.messages || []).
LoadChatMessagesResolved(c) ==
    /\ c \in legacy.loads
    /\ legacy' = [legacy EXCEPT !.loads = @ \ {c}, !.messages = legacy.store[c]]
    /\ UNCHANGED <<text, loading, messages, semantic, view, turns, now, block, evt,
                   mounted, vanilla>>

\* loadChatMessages(c) rejects: console.error.
LoadChatMessagesRejected(c) ==
    /\ c \in legacy.loads
    /\ legacy' = [legacy EXCEPT !.loads = @ \ {c}]
    /\ UNCHANGED <<text, loading, messages, semantic, view, turns, now, block, evt,
                   mounted, vanilla>>

\* onChange of the input (disabled while isLoading): setInputMessage.
LegacyType(t) ==
    /\ legacy.loaded
    /\ ~legacy.isLoading
    /\ legacy' = [legacy EXCEPT !.inputMessage = t]
    /\ UNCHANGED <<text, loading, messages, semantic, view, turns, now, block, evt,
                   mounted, vanilla>>

\* A guard that does not look at the text.
LegacyGuardOfLoadingOnly(l) == ~l.isLoading

\* if (!inputMessage.trim() || isLoading) return;
LegacyGuard(l) == ~(Trim(l.inputMessage) = <<>> \/ l.isLoading)

\* sendMessage() returns at its guard.
SendMessageRefused ==
    /\ legacy.loaded
    /\ ~LegacyGuard(legacy)
    /\ UNCHANGED vars

\* sendMessage() up to await fetch: setInputMessage(''), setIsLoading(true),
\* the user message appended, POST /chat with chat_id: currentChatId.  chat is
\* the closure's currentChatId, target the chat the server files the turn under.
SendMessageStart ==
    /\ legacy.loaded
    /\ LegacyGuard(legacy)
    /\ Len(legacy.posted) < MaxSends
    /\ \E target \in {IF legacy.currentChatId = NoChat THEN NewChat
                      ELSE legacy.currentChatId} :
        legacy' = [legacy EXCEPT
            !.inputMessage = <<>>, !.isLoading = TRUE,
            !.posted = Append(@, Trim(legacy.inputMessage)),
            !.messages = Append(@, Message("user", Trim(legacy.inputMessage), target)),
            !.send = [pc |-> "fetch", chat |-> legacy.currentChatId, target |-> target,
                      text |-> Trim(legacy.inputMessage), appended |-> <<"user">>]]
    /\ UNCHANGED <<text, loading, messages, semantic, view, turns, now, block, evt,
                   mounted, vanilla>>

\* The response is ok: the reply is appended, setCurrentChatId(data.chat_id)
\* when it is not the closure's currentChatId, and loadChats() is awaited.
SendMessageReplied ==
    /\ legacy.send.pc = "fetch"
    /\ legacy' = SetCurrentChatId(
            [legacy EXCEPT
                !.store = [@ EXCEPT ![legacy.send.target] =
                              @ \o <<Message("user", legacy.send.text, legacy.send.target),
                                     Message("assistant", ReplyText, legacy.send.target)>>],
                !.messages = Append(@, Message("assistant", ReplyText, legacy.send.target)),
                !.send = [@ EXCEPT !.pc = "chats", !.appended = Append(@, "reply")]],
            IF legacy.send.target # legacy.send.chat THEN legacy.send.target
            ELSE legacy.currentChatId)
    /\ UNCHANGED <<text, loading, messages, semantic, view, turns, now, block, evt,
                   mounted, vanilla>>

\* data.error || 'Failed to get response', a TypeError for data null.
LegacyRequestError(data) ==
    IF data.t = "lit" THEN NullFailure
    ELSE ToText(OrElse(Get(data, KeyError), JStr(FailedToGetResponse)))

\* A catch block that only logs the error.
SendMessageCaughtSilent(message) ==
    legacy' = [legacy EXCEPT
        !.isLoading = FALSE,
        !.send = [Idle EXCEPT !.appended = legacy.send.appended]]

\* catch (error): the message `Error: ${error.message}` is appended; finally
\* setIsLoading(false).
SendMessageCaught(message) ==
    legacy' = [legacy EXCEPT
        !.messages = Append(@, Message("assistant", ErrorLabel \o message,
                                       legacy.send.target)),
        !.isLoading = FALSE,
        !.send = [Idle EXCEPT !.appended = Append(legacy.send.appended, "error")]]

\* The response is not ok: throw new Error(data.error || ...).
SendMessageNotOk(data) ==
    /\ legacy.send.pc = "fetch"
    /\ SendMessageCaught(LegacyRequestError(data))
    /\ UNCHANGED <<text, loading, messages, semantic, view, turns, now, block, evt,
                   mounted, vanilla>>

\* fetch rejects, or response.json() does, or an ok response holds null.
SendMessageThrew(message) ==
    /\ legacy.send.pc = "fetch"
    /\ SendMessageCaught(message)
    /\ UNCHANGED <<text, loading, messages, semantic, view, turns, now, block, evt,
                   mounted, vanilla>>

\* await loadChats() of sendMessage settles: setChats(data) and, when the
\* closure's currentChatId is null, setCurrentChatId(data[0].id) (resolved), or
\* console.error (rejected, first = NoChat); finally setIsLoading(false).
SendMessageChatsSettled(first) ==
    /\ legacy.send.pc = "chats"
    /\ first \in ServerChats(legacy) \cup {NoChat}
    /\ legacy' = SetCurrentChatId(
            [legacy EXCEPT
                !.chats = IF first = NoChat THEN @ ELSE ServerChats(legacy),
                !.isLoading = FALSE,
                !.send = [Idle EXCEPT !.appended = legacy.send.appended]],
            IF first # NoChat /\ legacy.send.chat = NoChat THEN first
            ELSE legacy.currentChatId)
    /\ UNCHANGED <<text, loading, messages, semantic, view, turns, now, block, evt,
                   mounted, vanilla>>

LegacyNext ==
    \/ \E first \in OldChats \cup {NewChat} : LoadChatsResolved(first)
    \/ LoadChatsRejected
    \/ \E c \in OldChats \cup {NewChat} : SelectChat(c)
    \/ \E c \in OldChats \cup {NewChat} : LoadChatMessagesResolved(c)
    \/ \E c \in OldChats \cup {NewChat} : LoadChatMessagesRejected(c)
    \/ \E t \in LegacyInputs : LegacyType(t)
    \/ SendMessageRefused
    \/ SendMessageStart
    \/ SendMessageReplied
    \/ \E data \in ChatBodies : SendMessageNotOk(data)
    \/ \E message \in ChatFailures : SendMessageThrew(message)
    \/ \E first \in OldChats \cup {NewChat, NoChat} : SendMessageChatsSettled(first)

(***************************************************************************)
(* The plain-DOM client: sendMessage of the page that posts to /chat       *)
(***************************************************************************)

HttpErrorStatus == <<"H", "T", "T", "P", " ", "e", "r", "r", "o", "r", "!", " ", "s", "t", "a", "t", "u", "s", ":", " ">>

\* The state of the page that does not run this client.
VanillaClosed ==
    [loaded |-> FALSE, value |-> <<>>, disabled |-> FALSE, dom |-> <<>>,
     pc |-> "idle", posted |-> <<>>, appended |-> <<>>]

\* The page as loaded: userInput.value, userInput.disabled (and
\* sendButton.disabled), the children of messagesContainer.
VanillaOpened == [VanillaClosed EXCEPT !.loaded = TRUE]

\* The user types; a disabled input takes no text.
VanillaType(t) ==
    /\ vanilla.loaded
    /\ ~vanilla.disabled
    /\ vanilla' = [vanilla EXCEPT !.value = t]
    /\ UNCHANGED <<text, loading, messages, semantic, view, turns, now, block, evt,
                   mounted, legacy>>

\* const message = userInput.value.trim(); if (!message) return;
VanillaGuard(v) == Trim(v.value) # <<>>

\* A click or Enter (neither reaches a disabled button or input):
\* sendMessage() returns at its guard.
VanillaSendRefused ==
    /\ vanilla.loaded
    /\ ~vanilla.disabled
    /\ ~VanillaGuard(vanilla)
    /\ UNCHANGED vars

\* sendMessage() up to await fetch: input and button disabled,
\* addMessage(message, true), userInput.value = '', POST /chat.
VanillaSendStart ==
    /\ vanilla.loaded
    /\ ~vanilla.disabled
    /\ VanillaGuard(vanilla)
    /\ Len(vanilla.posted) < MaxSends
    /\ vanilla' = [vanilla EXCEPT
            !.disabled = TRUE, !.value = <<>>, !.pc = "fetch",
            !.dom = Append(@, [kind |-> "user", text |-> Trim(vanilla.value)]),
            !.posted = Append(@, Trim(vanilla.value)),
            !.appended = <<"user">>]
    /\ UNCHANGED <<text, loading, messages, semantic, view, turns, now, block, evt,
                   mounted, legacy>>

\* The response is ok: addMessage(data.reply, false); finally the input is
\* enabled again.
VanillaReplied ==
    /\ vanilla.pc = "fetch"
    /\ vanilla' = [vanilla EXCEPT
            !.disabled = FALSE, !.pc = "idle",
            !.dom = Append(@, [kind |-> "assistant", text |-> ReplyText]),
            !.appended = Append(@, "reply")]
    /\ UNCHANGED <<text, loading, messages, semantic, view, turns, now, block, evt,
                   mounted, legacy>>

\* data.error || `HTTP error! status: ${response.status}`, a TypeError for
\* data null.
VanillaRequestError(data, code) ==
    IF data.t = "lit" THEN NullFailure
    ELSE ToText(OrElse(Get(data, KeyError), JStr(HttpErrorStatus \o code)))

\* catch (error): showError(error.message || ...); finally the input is
\* enabled again.
VanillaCaught(message) ==
    vanilla' = [vanilla EXCEPT
        !.disabled = FALSE, !.pc = "idle",
        !.dom = Append(@, [kind |-> "error", text |-> ErrorLabel \o message]),
        !.appended = Append(@, "error")]

\* The response is not ok.
VanillaNotOk(data, code) ==
    /\ vanilla.pc = "fetch"
    /\ VanillaCaught(VanillaRequestError(data, code))
    /\ UNCHANGED <<text, loading, messages, semantic, view, turns, now, block, evt,
                   mounted, legacy>>

\* fetch rejects, or response.json() does, or an ok response holds null.
VanillaThrew(message) ==
    /\ vanilla.pc = "fetch"
    /\ VanillaCaught(message)
    /\ UNCHANGED <<text, loading, messages, semantic, view, turns, now, block, evt,
                   mounted, legacy>>

VanillaNext ==
    \/ \E t \in LegacyInputs : VanillaType(t)
    \/ VanillaSendRefused
    \/ VanillaSendStart
    \/ VanillaReplied
    \/ \E data \in ChatBodies, code \in StatusCodes : VanillaNotOk(data, code)
    \/ \E message \in ChatFailures : VanillaThrew(message)

(***************************************************************************)
(* parseSseBlock called on its own                                         *)
(***************************************************************************)

Unparsed == [event |-> <<>>, payload |-> Undefined, isNull |-> FALSE, fallback |-> FALSE,
             threw |-> TRUE]

\* The characters of the free data texts.
RawAlphabet == {"{", "}", "\"", "a", ":", " "}

\* The values whose JSON text is parsed back.
JsonSamples ==
    {JStr(<<>>), JStr(<<"a", " ", "b">>), JLit(LitTrue), JLit(LitFalse), JLit(LitNull),
     JObj(<<>>), JObj(<<<<KeyText, JStr(<<"h", "i">>)>>>>),
     JObj(<<<<KeyText, JStr(<<"x">>)>>>>),
     JObj(<<<<KeyMessage, JStr(<<"b", "o", "o", "m">>)>>>>),
     JObj(<<<<KeyToolCall, JObj(<<<<KeyName, JStr(<<"s">>)>>>>)>>, <<KeyTool, JLit(LitNull)>>>>)}

\* The frame data: not-json.
NotJsonBlock == <<"d", "a", "t", "a", ":", " ", "n", "o", "t", "-", "j", "s", "o", "n">>

\* Blocks with neither an event line nor a data line: two other lines, and a
\* space.
OtherLinesBlock == <<":", "a", "\n", "i", "d", ":", "b">>
BlankBlock == <<" ">>

\* Blocks put together from event lines and data lines of which the wire
\* contract tells the event name (name) and the data lines' texts: after the
\* prefix (after), and without the white space around them (trimmed).
EventParts ==
    {[lines |-> <<>>, name |-> EvMessage],
     [lines |-> <<"e", "v", "e", "n", "t", ":", "p", "i", "n", "g", "\n">>,
      name |-> <<"p", "i", "n", "g">>],
     [lines |-> <<"e", "v", "e", "n", "t", ":", " ", "t", "o", "k", "e", "n", " ", "\n">>,
      name |-> EvToken],
     [lines |-> <<"e", "v", "e", "n", "t", ":", "a", "\n", "e", "v", "e", "n", "t", ":", "b", "\n">>,
      name |-> <<"b">>]}

DataParts ==
    {[lines |-> <<"d", "a", "t", "a", ":", "x">>,
      after |-> <<"x">>, trimmed |-> <<"x">>],
     [lines |-> <<"d", "a", "t", "a", ":", " ", "x", " ", "y", " ">>,
      after |-> <<" ", "x", " ", "y", " ">>, trimmed |-> <<"x", " ", "y">>],
     [lines |-> <<"d", "a", "t", "a", ":", "a", "\n", "d", "a", "t", "a", ":", " ", " ", "b">>,
      after |-> <<"a", "\n", " ", " ", "b">>, trimmed |-> <<"a", "\n", "b">>],
     [lines |-> <<"d", "a", "t", "a", ":", "a", "\n", ":", "c", "\n", "d", "a", "t", "a", ":", "b">>,
      after |-> <<"a", "\n", "b">>, trimmed |-> <<"a", "\n", "b">>]}

LineBlocks ==
    {[block |-> e.lines \o d.lines, name |-> e.name, after |-> d.after,
      trimmed |-> d.trimmed] : e \in EventParts, d \in DataParts}

EventLines == {<<>>, EventPrefix \o EvError \o <<"\n">>, EventPrefix \o <<" ">> \o EvToken \o <<" ", "\n">>}

\* The blocks parseSseBlock is called on: an optional event line, then a data
\* line holding a free text or the JSON text of a sample value.
ParseBlocks ==
    {e \o DataPrefix \o <<" ">> \o d :
        e \in EventLines,
        d \in SeqsUpTo(RawAlphabet, MaxRaw) \cup {JsonStringify(v) : v \in JsonSamples}}
    \cup {Frames[n].block : n \in DOMAIN Frames}
    \cup {NotJsonBlock, OtherLinesBlock, BlankBlock}
    \cup {b.block : b \in LineBlocks}

ParseCall ==
    /\ evt = Unparsed
    /\ evt' = parseSseBlock(block)
    /\ UNCHANGED <<text, loading, messages, semantic, view, turns, now, block, mounted, legacy, vanilla>>

(***************************************************************************)
(* Specifications                                                          *)
(***************************************************************************)

Init ==
    /\ text = <<>>
    /\ loading = FALSE
    /\ messages = <<>>
    /\ semantic = <<>>
    /\ view = [text |-> <<>>, loading |-> FALSE]
    /\ turns = <<>>
    /\ now = 1
    /\ block = <<>>
    /\ evt = Unparsed
    /\ mounted = TRUE
    /\ legacy = LegacyClosed
    /\ vanilla = VanillaClosed

\* The steps of send after its first await, the server answering with a stream
\* of S or with a non-success status and a body of B.
SendSteps(S, B) ==
    \E i \in DOMAIN turns :
        \/ \E s \in S : FetchOk(i, s)
        \/ \E body \in B, code \in StatusCodes : FetchNotOk(i, "error", code, body)
        \/ FetchNotOk(i, "nobody", OkCode, Unparseable)
        \/ FetchReject(i)
        \/ ErrorBody(i)
        \/ ErrorBodyReject(i)
        \/ \E k \in 0..Len(Unsent(turns[i])) : ReadChunk(i, k)
        \/ ReadDone(i)
        \/ ReadReject(i)
        \/ SemanticFetched(i)
        \/ SemanticFetchReject(i)
        \/ \E list \in SemanticLists : SemanticLoaded(i, list)
        \/ SemanticJsonReject(i)

\* One streamed turn: the user composes a message, sends it (and may click
\* again), and the server answers with any stream of Streams.
Next ==
    \/ (turns = <<>> /\ \E t \in Inputs : TypeText(t))
    \/ SendRefused
    \/ SendStart(now)
    \/ Render
    \/ SendSteps(Streams, ErrorBodies \cup {Unparseable})

Spec == Init /\ [][Next]_vars

\* A session of several turns over a short stream, the clock advancing between
\* two turns or not.
SessionNext ==
    \/ \E t \in Inputs : TypeText(t)
    \/ SendRefused
    \/ \E t \in now..MaxClock : SendStart(t)
    \/ Render
    \/ SendSteps(SessionStreams, SessionBodies)

SessionSpec == Init /\ [][SessionNext]_vars

\* One turn whose view may be discarded at any moment.
TeardownStreams == {<<1>>, <<2>>}

TeardownNext ==
    \/ (turns = <<>> /\ \E t \in Inputs : TypeText(t))
    \/ SendRefused
    \/ SendStart(now)
    \/ Render
    \/ Unmount
    \/ SendSteps(TeardownStreams, SessionBodies)

TeardownSpec == Init /\ [][TeardownNext]_vars

\* A page of one of the three clients: the streaming client (one turn over a
\* short stream), the conversation-list client or the plain-DOM client.
ClientsInit ==
    /\ text = <<>>
    /\ loading = FALSE
    /\ messages = <<>>
    /\ semantic = <<>>
    /\ view = [text |-> <<>>, loading |-> FALSE]
    /\ turns = <<>>
    /\ now = 1
    /\ block = <<>>
    /\ evt = Unparsed
    /\ \/ mounted = TRUE /\ legacy = LegacyClosed /\ vanilla = VanillaClosed
       \/ mounted = FALSE /\ legacy = LegacyOpened /\ vanilla = VanillaClosed
       \/ mounted = FALSE /\ legacy = LegacyClosed /\ vanilla = VanillaOpened

ClientsNext ==
    \/ (turns = <<>> /\ \E t \in Inputs : TypeText(t))
    \/ SendRefused
    \/ SendStart(now)
    \/ Render
    \/ SendSteps(TeardownStreams, SessionBodies)
    \/ LegacyNext
    \/ VanillaNext

ClientsSpec == ClientsInit /\ [][ClientsNext]_vars

\* parseSseBlock on a block of ParseBlocks.
ParseInit ==
    /\ text = <<>>
    /\ loading = FALSE
    /\ messages = <<>>
    /\ semantic = <<>>
    /\ view = [text |-> <<>>, loading |-> FALSE]
    /\ turns = <<>>
    /\ now = 1
    /\ block \in ParseBlocks
    /\ evt = Unparsed
    /\ mounted = TRUE
    /\ legacy = LegacyClosed
    /\ vanilla = VanillaClosed

ParseSpec == ParseInit /\ [][ParseCall]_vars

(***************************************************************************)
(* What the wire contract expects of a stream, computed from the frames    *)
(* the server sent and the number of bytes delivered, without the parser.  *)
(***************************************************************************)

\* The assistant message turn i appended: each turn appends a user message and
\* its assistant message.
ContentOf(i) == messages[2 * i].content

\* The number of bytes up to and including the delimiter of the j-th frame.
RECURSIVE EndOf(_, _)
EndOf(fs, j) ==
    IF j = 0 THEN 0 ELSE EndOf(fs, j - 1) + Len(Frames[fs[j]].wire) + Len(Delimiter)

\* The number of frames wholly delivered, delimiter included, within n bytes.
Delimited(fs, n) == Cardinality({j \in DOMAIN fs : EndOf(fs, j) <= n})

\* The first error frame among the first d frames, or d when there is none:
\* the number of frames the client handles.
Handled(fs, d) ==
    LET errors == {j \in 1..d : Frames[fs[j]].kind = "error"}
    IN  IF errors = {} THEN d ELSE CHOOSE j \in errors : \A k \in errors : j <= k

\* The first d frames' blocks, and the text their frames of the kinds K add.
BlocksOf(fs, d) == [j \in 1..d |-> Frames[fs[j]].block]

RECURSIVE AddsOf(_, _, _)
AddsOf(fs, d, K) ==
    IF d = 0 THEN <<>>
    ELSE AddsOf(fs, d - 1, K)
            \o (IF Frames[fs[d]].kind \in K THEN Frames[fs[d]].adds ELSE <<>>)

\* The turns whose response was a stream.
Streamed == {i \in DOMAIN turns : turns[i].status = "ok"}

(***************************************************************************)
(* C1: chunking invariance                                                 *)
(***************************************************************************)

\* What send's loop makes of the bytes delivered so far when they arrive as a
\* single chunk, and then (closed) of the reader's done.
OneChunk(i, closed) ==
    LET t == turns[i]
        placeholder == [messages EXCEPT ![2 * i].content = <<>>]
        first == LoopBody(NewTurn(t.assistantId), placeholder,
                          SubSeq(Wire(t.stream), 1, t.sent), FALSE)
        after == [NewTurn(t.assistantId) EXCEPT !.pending = first.pending,
                                                !.buffer = first.buffer, !.log = first.log]
        last == LoopBody(after, first.messages, <<>>, TRUE)
        r == IF closed /\ ~first.thrown THEN last ELSE first
    IN  [content |-> IF r.thrown THEN ErrorLabel \o r.message
                     ELSE r.messages[2 * i].content,
         log |-> r.log,
         pending |-> IF r.thrown \/ closed THEN FALSE ELSE r.pending,
         buffer |-> IF r.thrown \/ closed THEN <<>> ELSE r.buffer,
         thrown |-> r.thrown]

\* C1: however the reader cuts the delivered bytes into chunks (on a frame
\* boundary, inside a frame, inside a two-byte character, with empty chunks),
\* the loop is where a single chunk of the same bytes would have put it: the
\* same blocks handled in the same order, the same assistant content, the same
\* text left in the buffer and the decoder, and the same end (on to the
\* refresh, or failed by the same error event).
ChunkingInvariance ==
    \A i \in Streamed :
        /\ turns[i].pc = "read" =>
              LET one == OneChunk(i, FALSE)
              IN  /\ ~one.thrown
                  /\ ContentOf(i) = one.content
                  /\ turns[i].log = one.log
                  /\ turns[i].buffer = one.buffer
                  /\ turns[i].pending = one.pending
        /\ turns[i].pc = "sem_fetch" =>
              LET one == OneChunk(i, TRUE)
              IN  /\ ~one.thrown
                  /\ ContentOf(i) = one.content
                  /\ turns[i].log = one.log
        /\ turns[i].pc = "done" /\ turns[i].cause = "event" =>
              LET one == OneChunk(i, TRUE)
              IN  /\ one.thrown
                  /\ ContentOf(i) = one.content
                  /\ turns[i].log = one.log

\* A chunk ended inside the second byte pair of the second frame: one frame is
\* handled, the rest waits in the buffer and in the decoder.
ChunkingWitness ==
    \E i \in Streamed :
        /\ turns[i].pc = "read"
        /\ turns[i].stream = <<1, 2>>
        /\ turns[i].log = <<TokenHe.block>>
        /\ turns[i].pending
        /\ turns[i].buffer # <<>>
        /\ ContentOf(i) = TokenHe.adds

(***************************************************************************)
(* C2: the content of a stream that completes                              *)
(***************************************************************************)

\* The reader signalled done without an error event or a transport failure
\* before it, and the refresh has not failed.
StreamCompleted(i) ==
    \/ turns[i].pc \in {"sem_fetch", "sem_json"}
    \/ turns[i].outcome = "complete"

ContentOnlyGrows ==
    [][\A i \in DOMAIN turns :
          turns[i].outcome = "active" =>
              IsPrefix(messages[2 * i].content, messages'[2 * i].content)]_vars

(***************************************************************************)
(* C4: the error event                                                     *)
(***************************************************************************)

\* C4: once the bytes delivered hold a delimited error frame, the turn has
\* ended failed by that event: the frames before it and the error frame are
\* the blocks handled, nothing after it is, the loop is left (no read can
\* follow), loading is off, and the assistant content holds the message of the
\* error payload.
ErrorEventEndsTurn ==
    \A i \in Streamed :
        LET fs == turns[i].stream
            d == Delimited(fs, turns[i].sent)
            h == Handled(fs, d)
        IN  (d >= 1 /\ Frames[fs[h]].kind = "error") =>
                /\ turns[i].pc = "done"
                /\ turns[i].outcome = "failed"
                /\ turns[i].cause = "event"
                /\ turns[i].log = BlocksOf(fs, h)
                /\ Includes(ContentOf(i), Frames[fs[h]].message)
                /\ ContentOf(i) = ErrorLabel \o Frames[fs[h]].message
                /\ ~loading

\* An error frame and the token frame after it arrived in one chunk: the
\* token was not handled.
ErrorEventWitness ==
    \E i \in Streamed :
        /\ turns[i].stream = <<3, 1>>
        /\ turns[i].sent = Len(Wire(turns[i].stream))
        /\ turns[i].pc = "done"
        /\ turns[i].cause = "event"
        /\ turns[i].log = <<ErrorBoom.block>>
        /\ Includes(ContentOf(i), ErrorBoom.message)

(***************************************************************************)
(* C5: the refresh after the stream                                        *)
(***************************************************************************)

\* C5 as stated: once the stream has completed, the refresh of the semantic
\* memories changes neither the assistant content nor the turn's outcome,
\* whether it succeeds or fails.
RefreshLeavesReply ==
    [][\A i \in DOMAIN turns :
          turns[i].pc \in {"sem_fetch", "sem_json"} =>
              /\ messages'[2 * i].content = messages[2 * i].content
              /\ turns'[i].outcome \in {"active", "complete"}]_vars

(***************************************************************************)
(* C6: the non-success response                                            *)
(***************************************************************************)

\* The texts of the fields named key of a response body.
FieldOf(body, key) ==
    {body.kv[n][2].s : n \in {m \in DOMAIN body.kv : body.kv[m][1] = key}}

\* C6: after a response with a non-success status no reader is taken, no read
\* resolves and no block is handled; the turn waits for the body or has ended
\* failed, and then the assistant content holds the body's detail, or its
\* error when it has no detail to show.
NonSuccessSkipsStream ==
    \A i \in DOMAIN turns :
        turns[i].status = "error" =>
            /\ ~turns[i].reader
            /\ ~turns[i].didRead
            /\ turns[i].log = <<>>
            /\ turns[i].sent = 0
            /\ turns[i].pc \in {"errjson", "done"}
            /\ turns[i].pc = "done" =>
                  LET details == FieldOf(turns[i].body, KeyDetail) \ {<<>>}
                      errors == FieldOf(turns[i].body, KeyError) \ {<<>>}
                  IN  /\ turns[i].outcome = "failed"
                      /\ turns[i].cause \in {"status", "body"}
                      /\ IsPrefix(ErrorLabel, ContentOf(i))
                      /\ \A v \in details : Includes(ContentOf(i), v)
                      /\ details = {} => \A v \in errors : Includes(ContentOf(i), v)

\* A body with a detail and an error: the turn failed showing the detail.
NonSuccessWitness ==
    \E i \in DOMAIN turns :
        /\ turns[i].status = "error"
        /\ turns[i].pc = "done"
        /\ FieldOf(turns[i].body, KeyDetail) = {<<"b", "a", "d">>}
        /\ FieldOf(turns[i].body, KeyError) = {<<"n", "o">>}
        /\ ContentOf(i) = ErrorLabel \o <<"b", "a", "d">>

(***************************************************************************)
(* C7: one active turn                                                     *)
(***************************************************************************)

\* The sends past their guard that have not returned.
Active == {i \in DOMAIN turns : turns[i].pc # "done"}

FailureContents(i) ==
    LET fs == turns[i].stream
        h == Handled(fs, Delimited(fs, turns[i].sent))
        c == turns[i].cause
    IN  IF c = "fetch" THEN {FetchFailure}
        ELSE IF c = "status"
             THEN {<<"b", "a", "d">>, <<"n", "o">>, RequestFailed, NullFailure}
        ELSE IF c = "body" THEN {JsonFailure}
        ELSE IF c = "transport" THEN {ReadFailure}
        ELSE IF c = "event" THEN {Frames[fs[h]].message}
        ELSE IF c = "refresh" THEN {FetchFailure, JsonFailure}
        ELSE {}

\* C8: the promise of send never rejects; when send has returned its promise
\* is resolved and loading is off; and a turn that failed, whatever the source
\* (fetch rejection, non-success status, unparseable body, transport failure,
\* error event, failing refresh), has the failure text on its assistant message.
FailuresStayInside ==
    \A i \in DOMAIN turns :
        /\ turns[i].promise # "rejected"
        /\ turns[i].pc = "done" <=> turns[i].promise = "resolved"
        /\ turns[i].pc = "done" <=> turns[i].outcome # "active"
        /\ turns[i].pc = "done" => ~loading
        /\ turns[i].outcome = "failed" =>
              \E m \in FailureContents(i) : ContentOf(i) = ErrorLabel \o m

\* The transport failed after a token was shown.
FailuresWitness ==
    \E i \in DOMAIN turns :
        /\ turns[i].outcome = "failed"
        /\ turns[i].cause = "transport"
        /\ turns[i].log = <<TokenHe.block>>
        /\ turns[i].promise = "resolved"
        /\ ContentOf(i) = ErrorLabel \o ReadFailure

(***************************************************************************)
(* C9: parseSseBlock and data that is not JSON                             *)
(***************************************************************************)

\* The JSON texts among the data texts of ParseBlocks, by the JSON grammar: a
\* string without escapes, an object without members, or the text of a sample
\* value (the free texts are too short for an object with a member).
IsStringText(t) ==
    /\ Len(t) >= 2
    /\ t[1] = "\"" /\ t[Len(t)] = "\""
    /\ \A k \in 2..(Len(t) - 1) : t[k] # "\""

IsEmptyObjectText(t) ==
    /\ Len(t) >= 2
    /\ t[1] = "{" /\ t[Len(t)] = "}"
    /\ \A k \in 2..(Len(t) - 1) : t[k] = " "

\* What parseSseBlock has to return as the payload of the data text d.
ExpectedPayloads(d) ==
    LET raw == Trim(d)
        values == {v \in JsonSamples : JsonStringify(v) = raw}
    IN  IF raw = <<>> THEN {JObj(<<>>)}
        ELSE IF values # {} THEN values
        ELSE IF IsStringText(raw) THEN {JStr(SubSeq(raw, 2, Len(raw) - 1))}
        ELSE IF IsEmptyObjectText(raw) THEN {JObj(<<>>)}
        ELSE {JObj(<<<<KeyText, JStr(raw)>>>>)}

\* C9: parseSseBlock returns for every block (no exception leaves it), null
\* for the empty block only; for a block of an optional event line and one
\* data line the payload is the decoded value when the data text is JSON and
\* exactly { text: raw } when it is not empty and not JSON.
ParseNeverThrows ==
    evt # Unparsed =>
        /\ ~evt.threw
        /\ evt.isNull <=> block = <<>>
        /\ \A e \in EventLines \cup {<<>>} :
              LET head == e \o DataPrefix
                  d == SubSeq(block, Len(head) + 1, Len(block))
              IN  (IsPrefix(head, block) /\ ~Includes(d, <<"\n">>)) =>
                      /\ evt.payload \in ExpectedPayloads(d)
                      /\ evt.fallback <=> evt.payload = JObj(<<<<KeyText, JStr(Trim(d))>>>>)
                                            /\ Trim(d) \notin {JsonStringify(v) : v \in JsonSamples}

\* data: not-json was parsed: payload.text is "not-json".
ParseWitness ==
    /\ block = NotJsonBlock
    /\ evt.event = EvMessage
    /\ evt.fallback
    /\ Get(evt.payload, KeyText) = JStr(<<"n", "o", "t", "-", "j", "s", "o", "n">>)

(***************************************************************************)
(* C10: malformed frames                                                   *)
(***************************************************************************)

\* The last frame turn i handled.
LastHandled(i) ==
    Frames[turns[i].stream[Handled(turns[i].stream,
                                   Delimited(turns[i].stream, turns[i].sent))]]

\* C10 as stated: after a malformed frame, or a frame whose data is not JSON,
\* the turn is not failed by it.
MalformedNeverFails ==
    \A i \in Streamed :
        turns[i].cause = "event" => ~LastHandled(i).malformed

\* C10 amended: a malformed frame, or a frame whose data is not JSON, that is
\* not an error event does not fail the turn: only an error event does.  The
\* frames delimited are handled in order up to the first error event, what
\* they add (the raw text for a token that is not JSON) is the content while
\* the turn has not failed, and the turn can end complete.
MalformedIsSkipped ==
    \A i \in Streamed :
        LET fs == turns[i].stream
            h == Handled(fs, Delimited(fs, turns[i].sent))
        IN  /\ turns[i].log = BlocksOf(fs, h)
            /\ turns[i].cause = "event" => LastHandled(i).kind = "error"
            /\ turns[i].outcome = "failed" =>
                  turns[i].cause \in {"event", "transport", "refresh"}
            /\ turns[i].outcome # "failed" =>
                  ContentOf(i) = AddsOf(fs, h, {"token", "tool_call"})

\* A frame that is no event and a token that is not JSON: the turn is complete
\* and shows the token's raw text.
MalformedWitness ==
    \E i \in Streamed :
        /\ turns[i].stream = <<5, 2>>
        /\ turns[i].outcome = "complete"
        /\ turns[i].log = <<Garbage.block, TokenRaw.block>>
        /\ ContentOf(i) = TokenRaw.adds

(***************************************************************************)
(* C11: the tool_call annotation                                           *)
(***************************************************************************)

\* The tool identifier the wire contract gives a tool_call frame of the
\* library: tool_call.name, else tool, else the generic label.
ToolIdOf(f) ==
    IF f = ToolSearch THEN <<"s", "e", "a", "r", "c", "h">>
    ELSE IF f = ToolNamed THEN <<"s">>
    ELSE ToolLabel

\* The payload of a frame of the library as the server serialized it: the
\* text after its data: prefix.
DataTextOf(f) ==
    LET at == CHOOSE k \in 1..Len(f.block) : SepAt(f.block, DataPrefix, k)
    IN  SubSeq(f.block, at + Len(DataPrefix), Len(f.block))

\* C11: while the turn has not failed, every tool_call frame handled has put,
\* right after what the frames before it added, a line break and the
\* annotation [tool:<id>] followed by a space and the serialized payload.
ToolAnnotated ==
    \A i \in Streamed :
        LET fs == turns[i].stream
            h == Handled(fs, Delimited(fs, turns[i].sent))
        IN  turns[i].outcome # "failed" =>
                \A j \in 1..h :
                    Frames[fs[j]].kind = "tool_call" =>
                        IsPrefix(AddsOf(fs, j - 1, {"token", "tool_call"})
                                    \o <<"\n", "[", "t", "o", "o", "l", ":">>
                                    \o ToolIdOf(Frames[fs[j]]) \o <<"]", " ">>
                                    \o DataTextOf(Frames[fs[j]]),
                                 ContentOf(i))

\* A token, then a tool_call naming its tool at tool_call.name: the content is
\* the token's text and the annotation of tool s.
ToolAnnotatedWitness ==
    \E i \in Streamed :
        /\ turns[i].stream = <<1, 9>>
        /\ turns[i].pc = "sem_fetch"
        /\ Len(turns[i].log) = 2
        /\ Includes(ContentOf(i), <<"H", "e", "\n", "[", "t", "o", "o", "l", ":", "s", "]">>)

(***************************************************************************)
(* C12: unknown event names                                                *)
(***************************************************************************)

\* The first d frames of a stream without its frames of an unknown event name.
RECURSIVE Known(_, _)
Known(fs, d) ==
    IF d = 0 THEN <<>>
    ELSE IF Frames[fs[d]].kind = "other" THEN Known(fs, d - 1)
    ELSE Append(Known(fs, d - 1), fs[d])

\* C12: a frame whose event name is none of token, tool_call, error (the
\* default name message included) changes nothing: the message list is the
\* pair of the turn with the user's message as sent, the assistant content is
\* what the stream without these frames gives, the turn is failed by an event
\* only when an error frame was handled, and the frames after it are handled.
UnknownEventIsNoOp ==
    \A i \in Streamed :
        LET fs == turns[i].stream
            h == Handled(fs, Delimited(fs, turns[i].sent))
        IN  /\ Len(messages) = 2 * Len(turns)
            /\ messages[2 * i - 1].role = "user"
            /\ messages[2 * i - 1].content \in {Trim(t) : t \in Inputs}
            /\ messages[2 * i].role = "assistant"
            /\ Len(turns[i].log) = h
            /\ \A j \in 1..h : turns[i].log[j] = Frames[fs[j]].block
            /\ turns[i].cause = "event" => Frames[fs[h]].kind # "other"
            /\ turns[i].outcome # "failed" =>
                  ContentOf(i) = AddsOf(Known(fs, h), Len(Known(fs, h)),
                                        {"token", "tool_call"})

\* An unknown event (ping) and then a token, both handled: the turn is past
\* its loop with the token's text only.
UnknownEventWitness ==
    \E i \in Streamed :
        /\ turns[i].stream = <<8, 1>>
        /\ turns[i].log = <<Ping.block, TokenHe.block>>
        /\ turns[i].outcome = "complete"
        /\ ContentOf(i) = <<"H", "e">>

(***************************************************************************)
(* C13: the refresh of the semantic-memory list                            *)
(***************************************************************************)

\* C13: loadSemantic is called at most once per turn, and it has been called
\* exactly when the reader has signalled completion: the turn is then in the
\* refresh or has left it.  A turn ended by a rejected fetch, a non-success
\* response, a transport failure or an error event never called it, a turn
\* that ended complete called it once and set the list, and the list is only
\* ever set by such a turn.
RefreshOncePerCompletion ==
    /\ \A i \in DOMAIN turns :
          LET t == turns[i]
          IN  /\ t.loads \in {0, 1}
              /\ t.loads = 1 <=>
                    \/ t.pc \in {"sem_fetch", "sem_json"}
                    \/ t.pc = "done" /\ t.cause \in {"none", "refresh"}
              /\ t.loads = 1 => t.reader /\ t.didRead
              /\ t.outcome = "complete" <=> t.refreshed
              /\ t.refreshed => t.loads = 1
              /\ t.cause \in {"fetch", "status", "body", "transport", "event"} =>
                    t.loads = 0 /\ ~t.refreshed /\ t.outcome = "failed"
    /\ semantic # <<>> => \E i \in DOMAIN turns : turns[i].refreshed

\* A turn whose stream was read to its end: loadSemantic was called once, the
\* list is set and the turn ended complete.
RefreshWitness ==
    \E i \in Streamed :
        /\ turns[i].stream = <<1>>
        /\ turns[i].sent = Len(Wire(<<1>>))
        /\ turns[i].outcome = "complete"
        /\ turns[i].loads = 1
        /\ semantic \in SemanticLists

(***************************************************************************)
(* C14: teardown                                                           *)
(***************************************************************************)

\* The turns that hold a reader whose stream has not been read to its end and
\* that was not cancelled: send never calls reader.cancel() or releaseLock().
OpenReaders == {i \in DOMAIN turns : turns[i].reader /\ turns[i].pc = "read"}

\* C14: once the component is unmounted no turn holds an open reader: the
\* reader a turn had was released when the view was discarded, and a response
\* that arrives afterwards is not read.
TeardownReleasesReader == ~mounted => OpenReaders = {}

(***************************************************************************)
(* C15: message identifiers                                                *)
(***************************************************************************)

\* C15: no two messages of the list that carry an id carry the same one (the
\* user messages, which send creates without id, are left aside), so that an
\* update matched by m.id === assistantId reaches one message only.
MessageIdsUnique ==
    \A m, n \in DOMAIN messages :
        (m # n /\ messages[m].id # NoId /\ messages[n].id # NoId) =>
            messages[m].id # messages[n].id

(***************************************************************************)
(* C16: a turn's terminal state                                            *)
(***************************************************************************)

\* C16: once a turn has ended (send has returned, complete or failed), no
\* step changes the assistant message of that turn.
FinalizedStaysPut ==
    [][\A i \in DOMAIN turns :
          turns[i].pc = "done" => messages'[2 * i] = messages[2 * i]]_vars

(***************************************************************************)
(* C17: the message of a non-success response                              *)
(***************************************************************************)

\* C17: a turn ended by a non-success response whose body has no error and
\* no detail to show surfaces a message that names the response's status
\* code; with one of the fields, the message is that field's text.
GenericNamesStatus ==
    \A i \in DOMAIN turns :
        (turns[i].pc = "done" /\ turns[i].status = "error" /\ turns[i].cause = "status"
            /\ turns[i].body.t = "obj") =>
            LET shown == {s \in FieldOf(turns[i].body, KeyDetail)
                                \cup FieldOf(turns[i].body, KeyError) : s # <<>>}
            IN  IF shown = {} THEN Includes(ContentOf(i), turns[i].code)
                ELSE \E s \in shown : ContentOf(i) = ErrorLabel \o s

(***************************************************************************)
(* C18: the frame buffer                                                   *)
(***************************************************************************)

\* The text of a stream: its frames' texts, each followed by the delimiter.
RECURSIVE TextOf(_, _)
TextOf(fs, d) ==
    IF d = 0 THEN <<>> ELSE TextOf(fs, d - 1) \o Frames[fs[d]].block \o Delimiter

\* The number of characters that are whole within the first n bytes of a
\* stream: every byte but the first of a two-byte character ends one.
WholeChars(fs, n) == Cardinality({k \in 1..n : Wire(fs)[k] # LeadByte})

\* The blocks handled, each followed by the delimiter.
RECURSIVE Emitted(_, _)
Emitted(log, d) ==
    IF d = 0 THEN <<>> ELSE Emitted(log, d - 1) \o log[d] \o Delimiter

\* C18: while the loop waits for the next chunk, the blocks handled so far,
\* each followed by its delimiter, and then the buffer are the text of the
\* characters delivered whole so far (the first byte of a character cut in
\* two waits in the decoder); the buffer holds no delimiter; and the blocks
\* handled are the stream's first frames in stream order.
BufferLosesNothing ==
    \A i \in Streamed :
        turns[i].pc = "read" =>
            LET fs == turns[i].stream
                log == turns[i].log
            IN  /\ Emitted(log, Len(log)) \o turns[i].buffer
                      = SubSeq(TextOf(fs, Len(fs)), 1, WholeChars(fs, turns[i].sent))
                /\ turns[i].pending <=>
                      (turns[i].sent > 0 /\ Wire(fs)[turns[i].sent] = LeadByte)
                /\ ~Includes(turns[i].buffer, Delimiter)
                /\ Len(log) <= Len(fs)
                /\ log = BlocksOf(fs, Len(log))

\* One frame handled and the next one cut inside its two-byte character: the
\* buffer holds the frame's text before the character, the decoder its first
\* byte.
BufferWitness ==
    \E i \in Streamed :
        /\ turns[i].pc = "read"
        /\ turns[i].stream = <<1, 2>>
        /\ turns[i].log = <<TokenHe.block>>
        /\ turns[i].pending
        /\ turns[i].buffer = SubSeq(TokenRaw.block, 1, Len(TokenRaw.block) - 1)

(***************************************************************************)
(* C19: a torn trailing frame                                              *)
(***************************************************************************)

\* The turns whose stream the server closed with text after the last
\* delimiter, the reader having signalled completion.
TornAtEnd ==
    {i \in Streamed :
        /\ turns[i].loads = 1
        /\ turns[i].sent > EndOf(turns[i].stream,
                                 Delimited(turns[i].stream, turns[i].sent))}

NoEventNoData(b) ==
    /\ ~IsPrefix(EventPrefix, b) /\ ~IsPrefix(DataPrefix, b)
    /\ ~Includes(b, <<"\n">> \o EventPrefix) /\ ~Includes(b, <<"\n">> \o DataPrefix)

\* A loop state with one turn's message pair, the assistant's id being 1.
SampleLogged ==
    [messages |-> <<[id |-> NoId, role |-> "user", content |-> <<"h", "i">>],
                    [id |-> 1, role |-> "assistant", content |-> <<"H", "e">>]>>,
     log |-> <<>>, thrown |-> FALSE, message |-> <<>>]

\* C20 as stated: parseSseBlock returns null for every block without event
\* and data line, and the dispatch of the result changes nothing.
NullForNoLines ==
    (evt # Unparsed /\ NoEventNoData(block)) =>
        /\ evt.isNull
        /\ Dispatch(SampleLogged, 1, evt) = SampleLogged

\* C20 amended: parseSseBlock returns null for the empty block and for no
\* other; for a block made only of other lines it returns the default event
\* message with the empty payload {}; the dispatch of either result changes
\* nothing.
NullOnlyForEmpty ==
    evt # Unparsed =>
        /\ evt.isNull <=> block = <<>>
        /\ (NoEventNoData(block) /\ block # <<>>) =>
              /\ evt.event = EvMessage
              /\ evt.payload = JObj(<<>>)
              /\ ~evt.fallback /\ ~evt.threw
        /\ NoEventNoData(block) => Dispatch(SampleLogged, 1, evt) = SampleLogged

\* The block :hi was parsed: the result is not null, its event is message.
NullOnlyForEmptyWitness ==
    /\ block = Garbage.block
    /\ NoEventNoData(block)
    /\ evt # Unparsed
    /\ ~evt.isNull
    /\ evt.event = EvMessage

(***************************************************************************)
(* C21: the event built from the lines                                     *)
(***************************************************************************)

\* C21 as stated: the event name is that of the event: line, message without
\* one, and the raw payload is the data lines, each with only its prefix
\* removed, joined by a newline.  (None of the raw payloads is JSON: the raw
\* payload is the text of the payload.)
RawIsPrefixStripped ==
    evt # Unparsed =>
        \A b \in LineBlocks :
            block = b.block =>
                /\ evt.event = b.name
                /\ evt.payload = JObj(<<<<KeyText, JStr(b.after)>>>>)

\* C21 amended: the event name is that of the last event: line without the
\* white space around it, message without such a line; the raw payload is the
\* data lines in order, each without its prefix and without the white space
\* around what follows it, joined by a newline; lines that are neither are
\* skipped.
RawIsTrimmedLines ==
    evt # Unparsed =>
        \A b \in LineBlocks :
            block = b.block =>
                /\ ~evt.isNull /\ ~evt.threw
                /\ evt.event = b.name
                /\ evt.fallback
                /\ evt.payload = JObj(<<<<KeyText, JStr(b.trimmed)>>>>)

\* Two event lines and two data lines, the second indented: the name is the
\* last one's, the raw payload has lost the indentation.
RawIsTrimmedWitness ==
    /\ evt # Unparsed
    /\ block = <<"e", "v", "e", "n", "t", ":", "a", "\n", "e", "v", "e", "n", "t", ":", "b", "\n",
                 "d", "a", "t", "a", ":", "a", "\n", "d", "a", "t", "a", ":", " ", " ", "b">>
    /\ evt.event = <<"b">>
    /\ evt.payload = JObj(<<<<KeyText, JStr(<<"a", "\n", "b">>)>>>>)

(***************************************************************************)
(* C22: zero-length chunks                                                 *)
(***************************************************************************)

\* C22: a read that resolves with no bytes before completion leaves the
\* buffer, the decoder, the blocks handled and the message list as they were,
\* and the turn awaits the next read: the pass has made one read and nothing
\* else.
EmptyChunkIsNoOp ==
    [][\A i \in DOMAIN turns :
          ReadChunk(i, 0) =>
              /\ turns'[i].buffer = turns[i].buffer
              /\ turns'[i].pending = turns[i].pending
              /\ turns'[i].log = turns[i].log
              /\ turns'[i].sent = turns[i].sent
              /\ messages' = messages
              /\ loading' = loading
              /\ turns'[i].pc = "read" /\ turns'[i].outcome = "active"
              /\ turns'[i].didRead]_vars

\* A turn that has read, without any byte delivered, and awaits the next read.
EmptyChunkWitness ==
    \E i \in Streamed :
        /\ turns[i].pc = "read"
        /\ turns[i].didRead
        /\ turns[i].sent = 0
        /\ turns[i].buffer = <<>> /\ turns[i].log = <<>>
        /\ ContentOf(i) = <<>>

(***************************************************************************)
(* C23: the message list                                                   *)
(***************************************************************************)

\* C23: a step either appends to the list the pair of a new turn, the user's
\* message and an assistant placeholder with empty content, or keeps the
\* list's length and changes no message but the assistant message of the
\* turn under way, the latest.
AppendOnlyButActive ==
    [][\/ /\ Len(messages') = Len(messages) + 2
          /\ SubSeq(messages', 1, Len(messages)) = messages
          /\ messages'[Len(messages) + 1].role = "user"
          /\ messages'[Len(messages) + 2].role = "assistant"
          /\ messages'[Len(messages) + 2].content = <<>>
          /\ turns'[Len(turns')].pc = "fetch"
       \/ /\ Len(messages') = Len(messages)
          /\ \A n \in DOMAIN messages :
                messages'[n] # messages[n] =>
                    /\ n = 2 * Len(turns)
                    /\ messages'[n].id = messages[n].id
                    /\ messages'[n].role = messages[n].role]_vars

(***************************************************************************)
(* C24: the loading flag                                                   *)
(***************************************************************************)

\* C24: loading is on exactly while a send is past its guard and has not
\* returned: set with the turn, kept for the whole turn, and off after every
\* way out of it (complete, or failed by the fetch, the status, the body, the
\* transport, an error event or the refresh).  The render send closes over
\* never shows loading off during a turn, and once no turn is under way and
\* the render is current, the guard lets a message that is not blank through.
LoadingIsTurnActive ==
    /\ loading <=> Active # {}
    /\ ~view.loading => ~loading
    /\ \A i \in DOMAIN turns :
          turns[i].pc = "done" =>
              /\ turns[i].outcome \in {"complete", "failed"}
              /\ turns[i].outcome = "complete" <=> turns[i].cause = "none"
              /\ i = Len(turns) => ~loading
    /\ (Active = {} /\ view = [text |-> text, loading |-> loading]) =>
          (Guard(view) <=> Trim(text) # <<>>)

\* A turn failed by an error event, loading was cleared, and the next turn
\* has passed the guard: loading is on again.
LoadingWitness ==
    /\ Len(turns) = 2
    /\ turns[1].pc = "done" /\ turns[1].cause = "event"
    /\ turns[2].pc = "fetch"
    /\ loading

(***************************************************************************)
(* C25: the displayed list and the selected chat                           *)
(***************************************************************************)

\* C25: a response of loadChatMessages is applied to the displayed list only
\* when its chat is the selected one, and a reply of sendMessage only when
\* the chat the message was sent from is still the selected one.
StaleNeverApplied ==
    [][/\ \A c \in OldChats \cup {NewChat} :
             LoadChatMessagesResolved(c) => c = legacy.currentChatId
       /\ SendMessageReplied => legacy.send.chat = legacy.currentChatId]_vars

(***************************************************************************)
(* C26: what a sendMessage of the clients of /chat appends                 *)
(***************************************************************************)

\* The two appends of a sendMessage that has returned.
PairsAppended == {<<"user", "reply">>, <<"user", "error">>}

\* C26: a sendMessage past its guard has appended the user message and is
\* loading (the input disabled) until it returns; when it has returned it
\* has appended the user message and then either the reply or one error
\* message, and loading is off (the input enabled).  In the plain-DOM
\* client, whose list nothing else writes, the list is these pairs, one per
\* message posted.
SendAppendsPair ==
    /\ legacy.send.pc = "fetch" => legacy.send.appended = <<"user">> /\ legacy.isLoading
    /\ legacy.send.pc = "chats" =>
          legacy.send.appended = <<"user", "reply">> /\ legacy.isLoading
    /\ legacy.send.pc = "idle" =>
          /\ ~legacy.isLoading
          /\ IF legacy.posted = <<>> THEN legacy.send.appended = <<>>
             ELSE legacy.send.appended \in PairsAppended
    /\ vanilla.pc = "fetch" =>
          /\ vanilla.appended = <<"user">> /\ vanilla.disabled
          /\ Len(vanilla.dom) = 2 * Len(vanilla.posted) - 1
    /\ vanilla.pc = "idle" =>
          /\ ~vanilla.disabled
          /\ Len(vanilla.dom) = 2 * Len(vanilla.posted)
          /\ IF vanilla.posted = <<>> THEN vanilla.appended = <<>>
             ELSE vanilla.appended \in PairsAppended
    /\ \A k \in DOMAIN vanilla.posted :
          /\ vanilla.dom[2 * k - 1] = [kind |-> "user", text |-> vanilla.posted[k]]
          /\ 2 * k <= Len(vanilla.dom) =>
                \/ vanilla.dom[2 * k] = [kind |-> "assistant", text |-> ReplyText]
                \/ /\ vanilla.dom[2 * k].kind = "error"
                   /\ IsPrefix(ErrorLabel, vanilla.dom[2 * k].text)

\* A sendMessage of the conversation-list client that met a non-success
\* response has returned: the list ends with its error message, loading is off.
SendAppendsPairWitness ==
    /\ legacy.send.pc = "idle"
    /\ legacy.send.appended = <<"user", "error">>
    /\ ~legacy.isLoading
    /\ Len(legacy.messages) >= 2
    /\ legacy.messages[Len(legacy.messages)].content = ErrorLabel \o FailedToGetResponse
    /\ legacy.messages[Len(legacy.messages) - 1].role = "user"

(***************************************************************************)
(* C27: the guards of the three send operations                            *)
(***************************************************************************)

\* White space only, or nothing.
Blank(s) == \A k \in DOMAIN s : s[k] \in TrimSpace

\* C27: no step of a client issues a request or starts a turn from a state
\* whose input text is blank, nor, in the two React clients, from a state
\* where a turn is loading: a send called there returns at its guard, and
\* the requests issued, the turns started and the message pairs appended
\* for them stay as they were.
BlankNeverStarts ==
    [][/\ Blank(text) \/ loading =>
            /\ Len(turns') = Len(turns)
            /\ Len(messages') = Len(messages)
       /\ Blank(legacy.inputMessage) \/ legacy.isLoading =>
            /\ legacy'.posted = legacy.posted
            /\ legacy'.send.pc = "fetch" => legacy.send.pc = "fetch"
       /\ Blank(vanilla.value) =>
            /\ vanilla'.posted = vanilla.posted
            /\ vanilla'.pc = "fetch" => vanilla.pc = "fetch"]_vars

\* The conversation-list client holds a text of white space, its guard
\* refuses it, and nothing was posted or appended.
BlankNeverStartsWitness ==
    /\ legacy.loaded
    /\ legacy.inputMessage = <<" ">>
    /\ ~LegacyGuard(legacy)
    /\ ENABLED SendMessageRefused
    /\ ~legacy.isLoading
    /\ legacy.posted = <<>>
    /\ legacy.send = Idle

====
